---- MODULE Spec2Model ----
(***************************************************************************)
(* Text stage of the shipping-label extractor: TextExtractor               *)
(* (src/src/text_extraction.py) and PatternRefiner                         *)
(* (src/src/pattern_refiner.py).                                           *)
(*                                                                         *)
(* A Python str is a sequence of one-character strings.  Python's None is  *)
(* the one-element sequence None, which no str equals.                     *)
(***************************************************************************)
EXTENDS Integers, Sequences, FiniteSets, TLC

\* ------------------------------------------------------------------ characters

Digits == {"0", "1", "2", "3", "4", "5", "6", "7", "8", "9"}

LowerSeq ==
  <<"a", "b", "c", "d", "e", "f", "g", "h", "i", "j", "k", "l", "m",
    "n", "o", "p", "q", "r", "s", "t", "u", "v", "w", "x", "y", "z">>

UpperSeq ==
  <<"A", "B", "C", "D", "E", "F", "G", "H", "I", "J", "K", "L", "M",
    "N", "O", "P", "Q", "R", "S", "T", "U", "V", "W", "X", "Y", "Z">>

Lowers == {LowerSeq[n] : n \in DOMAIN LowerSeq}

Uppers == {UpperSeq[n] : n \in DOMAIN UpperSeq}

\* [a-zA-Z]
\* [a-zA-Z] widened to the characters of a separator
LettersOrSep == Lowers \cup Uppers \cup {"_", "1"}

Letters == Lowers \cup Uppers

\* \s, and the characters str.split() and str.strip() treat as blank
Whitespace == {" ", "\n", "\r", "\t"}

\* LowerChar swapping the case, as str.swapcase() does
SwapChar(c) ==
  IF c \in Uppers
    THEN LowerSeq[CHOOSE n \in DOMAIN UpperSeq : UpperSeq[n] = c]
    ELSE IF c \in Lowers
      THEN UpperSeq[CHOOSE n \in DOMAIN LowerSeq : LowerSeq[n] = c]
      ELSE c

\* str.lower() on one character
LowerChar(c) ==
  IF c \in Uppers
    THEN LowerSeq[CHOOSE n \in DOMAIN UpperSeq : UpperSeq[n] = c]
    ELSE c

None == <<"<None>">>

\* Python truthiness of an optional str: None and "" are falsy
Truthy(s) == s # None /\ s # <<>>

Min2(x, y) == IF x <= y THEN x ELSE y

\* Max2 adding where it should take the larger
Max2Sum(x, y) == x + y

Max2(x, y) == IF x >= y THEN x ELSE y

\* ------------------------------------------------------------ string helpers

\* the characters of s, in order, that belong to keep: re.sub(r"[^...]", "", s)
KeepOnly(s, keep) == SelectSeq(s, LAMBDA c : c \in keep)

\* str.lower()
LowerStr(s) == [n \in DOMAIN s |-> LowerChar(s[n])]

\* sub occurs in s at index n
OccursAt(s, sub, n) ==
  /\ n >= 1
  /\ n + Len(sub) - 1 <= Len(s)
  /\ \A m \in 1..Len(sub) : s[n + m - 1] = sub[m]

\* sub in s
Contains(s, sub) == \E n \in 1..(Len(s) - Len(sub) + 1) : OccursAt(s, sub, n)

\* the least element of a non-empty set of integers
Least(S) == CHOOSE x \in S : \A y \in S : x <= y

\* str.find(sep, n): the first index at or after n where sep occurs, 0 if none
Find(s, sep, n) ==
  LET occ == {m \in n..(Len(s) - Len(sep) + 1) : OccursAt(s, sep, m)}
  IN  IF occ = {} THEN 0 ELSE Least(occ)

\* str.split(sep) for a non-empty sep: the pieces between the non-overlapping
\* occurrences of sep, found left to right
RECURSIVE SplitFrom(_, _, _)
SplitFrom(s, sep, start) ==
  LET m == Find(s, sep, start)
  IN  IF m = 0 THEN <<SubSeq(s, start, Len(s))>>
      ELSE <<SubSeq(s, start, m - 1)>> \o SplitFrom(s, sep, m + Len(sep))

Split(s, sep) == SplitFrom(s, sep, 1)

\* str.strip()
RECURSIVE LStrip(_)
LStrip(s) ==
  IF s # <<>> /\ Head(s) \in Whitespace THEN LStrip(Tail(s)) ELSE s

RECURSIVE RStrip(_)
RStrip(s) ==
  IF s # <<>> /\ s[Len(s)] \in Whitespace
    THEN RStrip(SubSeq(s, 1, Len(s) - 1))
    ELSE s

Strip(s) == RStrip(LStrip(s))

\* index of the first character at or after n that is not in cls (Len(s)+1 if
\* none): where a greedy cls* that starts at n stops
RECURSIVE SkipWhile(_, _, _)
SkipWhile(s, cls, n) ==
  IF n <= Len(s) /\ s[n] \in cls THEN SkipWhile(s, cls, n + 1) ELSE n

\* index of the first character at or after n that is in cls
RECURSIVE SkipUntil(_, _, _)
SkipUntil(s, cls, n) ==
  IF n <= Len(s) /\ s[n] \notin cls THEN SkipUntil(s, cls, n + 1) ELSE n

\* as SkipWhile, taking at most most characters: a greedy cls{0,most}
RECURSIVE SkipUpTo(_, _, _, _)
SkipUpTo(s, cls, n, most) ==
  IF most > 0 /\ n <= Len(s) /\ s[n] \in cls
    THEN SkipUpTo(s, cls, n + 1, most - 1)
    ELSE n

\* ----------------------------------------------- TextExtractor._clean_text

\* t.replace("\n", " ").replace("\r", " ")
ReplaceNewlines(t) ==
  [n \in DOMAIN t |-> IF t[n] \in {"\n", "\r"} THEN " " ELSE t[n]]

\* " ".join(t.split()): blank runs become one space, none at either end
RECURSIVE JoinSplit(_, _)
JoinSplit(t, n) ==
  LET a == SkipWhile(t, Whitespace, n)
      b == SkipUntil(t, Whitespace, a)
  IN  IF a > Len(t) THEN <<>>
      ELSE LET rest == JoinSplit(t, b)
           IN  SubSeq(t, a, b - 1)
                 \o (IF rest = <<>> THEN <<>> ELSE <<" ">> \o rest)

\* re.sub(r"\s*_\s*", "_", t): scanning left to right, a blank run, an
\* underscore and a blank run become one underscore
RECURSIVE SubUnderscore(_, _)
SubUnderscore(t, n) ==
  IF n > Len(t) THEN <<>>
  ELSE LET u == SkipWhile(t, Whitespace, n)
           \* no match starts at a character that is neither blank nor "_"
           v == SkipUntil(t, Whitespace \cup {"_"}, n + 1)
       IN  IF u <= Len(t) /\ t[u] = "_"
             THEN <<"_">> \o SubUnderscore(t, SkipWhile(t, Whitespace, u + 1))
             ELSE SubSeq(t, n, v - 1) \o SubUnderscore(t, v)

\* SubDigitGap leaving the blanks between digits where they are
SubDigitGapKept(t, n) == SubSeq(t, n, Len(t))

\* re.sub(r"(?<=\d)\s+(?=\d)", "", t): a blank run with a digit on both sides
\* is dropped
RECURSIVE SubDigitGap(_, _)
SubDigitGap(t, n) ==
  IF n > Len(t) THEN <<>>
  ELSE LET e == SkipWhile(t, Whitespace, n)
           \* no match starts at a character that is not blank
           v == SkipUntil(t, Whitespace, n + 1)
       IN  IF /\ n > 1
              /\ t[n - 1] \in Digits
              /\ e > n
              /\ e <= Len(t)
              /\ t[e] \in Digits
             THEN SubDigitGap(t, e)
             ELSE SubSeq(t, n, v - 1) \o SubDigitGap(t, v)

_clean_text(t) ==
  SubDigitGap(SubUnderscore(JoinSplit(ReplaceNewlines(t), 1), 1), 1)

\* ------------------------------------------------- TextExtractor.patterns

\* the separator token, with and without its closing underscore
Sep == <<"_", "1", "_">>

SepShort == <<"_", "1">>

MinRun == 15

MaxRun == 20

CanonRun == 18

MaxSuffix == 3

\* t holds k digits from n on: \d{k} matches at n
DigitsAt(t, n, k) ==
  /\ n + k - 1 <= Len(t)
  /\ \A j \in n..(n + k - 1) : t[j] \in Digits

\* _1_ at n followed by a greedy [a-zA-Z]{lo,hi}: the end of the match, or 0
SepLetters(t, n, lo, hi) ==
  IF ~OccursAt(t, Sep, n) THEN 0
  ELSE LET e == SkipUpTo(t, Letters, n + 3, hi)
       IN  IF e - (n + 3) >= lo THEN e ELSE 0

\* \s*_\s*1\s*_\s*[a-zA-Z]{0,3} at n: the end of the match, or 0
LooseSepLetters(t, n) ==
  LET a == SkipWhile(t, Whitespace, n)
      b == SkipWhile(t, Whitespace, a + 1)
      c == SkipWhile(t, Whitespace, b + 1)
      d == SkipWhile(t, Whitespace, c + 1)
  IN  IF /\ a <= Len(t) /\ t[a] = "_"
         /\ b <= Len(t) /\ t[b] = "1"
         /\ c <= Len(t) /\ t[c] = "_"
        THEN SkipUpTo(t, Letters, d, MaxSuffix)
        ELSE 0

\* PatLo taking a run one digit shorter than \d{15,20} does
PatLoShort(pat) == IF pat = 1 THEN CanonRun ELSE MinRun - 1

\* the shortest digit run pattern number pat takes: \d{18} or \d{15,20}
PatLo(pat) == IF pat = 1 THEN CanonRun ELSE MinRun

\* the longest digit run pattern number pat takes
PatHi(pat) == IF pat = 1 THEN CanonRun ELSE MaxRun

\* what follows the digit run in pattern number pat, tried at m: the end (the
\* index after the last character) of its match, or 0 if it has none there
RestAt(pat, t, m) ==
  CASE pat = 1 -> SepLetters(t, m, MaxSuffix, MaxSuffix)  \* _1_[a-zA-Z]{3}
    [] pat = 2 -> SepLetters(t, m, 1, MaxSuffix)          \* _1_[a-zA-Z]{1,3}
    [] pat = 3 -> LooseSepLetters(t, m)    \* \s*_\s*1\s*_\s*[a-zA-Z]{0,3}
    [] pat = 4 -> IF OccursAt(t, SepShort, m) THEN m + 2 ELSE 0       \* _1
    [] pat = 5 -> m                                             \* nothing

\* the end of pattern number pat's match that starts at n, or 0 if it has none
\* there: the greedy digit run takes the largest k for which the rest matches
MatchAt(pat, t, n) ==
  LET ks == {k \in PatLo(pat)..PatHi(pat) :
               RestAt(pat, t, n + k) # 0 /\ DigitsAt(t, n, k)}
  IN  IF ks = {} THEN 0 ELSE RestAt(pat, t, n - Least({-k : k \in ks}))

NumPatterns == 5

\* pat.finditer(t) from n on: the matched substrings, leftmost first, each
\* search resuming where the previous match ended
RECURSIVE FindIter(_, _, _)
FindIter(pat, t, n) ==
  LET starts == {m \in n..Len(t) : MatchAt(pat, t, m) # 0}
  IN  IF starts = {} THEN <<>>
      ELSE LET m == Least(starts)
               e == MatchAt(pat, t, m)
           IN  <<SubSeq(t, m, e - 1)>> \o FindIter(pat, t, e)

\* ------------------------------------------------------ TextExtractor._norm

\* the value that stands for an uncaught ValueError (too many values to unpack)
ValueError == <<"<ValueError>">>

\* _norm leaving the suffix in the case it was read in
_normKeepCase(p0) ==
  LET p == Strip(p0)
  IN  IF Contains(p, Sep)
        THEN LET parts == Split(p, Sep)
             IN  IF Len(parts) # 2 THEN ValueError
                 ELSE KeepOnly(parts[1], Digits) \o Sep
                        \o KeepOnly(parts[2], Letters)
      ELSE IF Contains(p, SepShort)
        THEN KeepOnly(Split(p, SepShort)[1], Digits) \o SepShort
      ELSE KeepOnly(p, Digits)

_norm(p0) ==
  LET p == Strip(p0)
  IN  IF Contains(p, Sep)
        THEN LET parts == Split(p, Sep)
             IN  IF Len(parts) # 2 THEN ValueError
                 ELSE KeepOnly(parts[1], Digits) \o Sep
                        \o LowerStr(KeepOnly(parts[2], Letters))
      ELSE IF Contains(p, SepShort)
        THEN KeepOnly(Split(p, SepShort)[1], Digits) \o SepShort
      ELSE KeepOnly(p, Digits)

\* ----------------------------------------------------- TextExtractor._score

ScoreBase == 20

ScoreCanonRun == 100

ScoreLongRun == 80

LongRun == 16

ScoreSuffix == 50

ScoreShort == 60

\* _score blind to the shape of the candidate
_scoreFlat(p) == IF Len(p) >= MinRun THEN ScoreBase ELSE 0

\* _score taking every run of 18 digits or more for the canonical one
_scoreAtLeast(p) ==
  IF Contains(p, Sep)
    THEN LET parts == Split(p, Sep)
         IN  IF Len(parts) # 2 THEN -1
             ELSE (IF Len(parts[1]) >= CanonRun THEN ScoreCanonRun
                   ELSE IF Len(parts[1]) >= LongRun THEN ScoreLongRun
                   ELSE 0)
                  + (IF Len(parts[2]) = MaxSuffix THEN ScoreSuffix ELSE 0)
                  + ScoreBase
  ELSE IF Contains(p, SepShort) /\ Len(Split(p, SepShort)[1]) >= MinRun
    THEN ScoreShort
  ELSE IF Len(p) >= MinRun THEN ScoreBase ELSE 0

\* an int, or -1 for an uncaught ValueError
_score(p) ==
  IF Contains(p, Sep)
    THEN LET parts == Split(p, Sep)
         IN  IF Len(parts) # 2 THEN -1
             ELSE (IF Len(parts[1]) = CanonRun THEN ScoreCanonRun
                   ELSE IF Len(parts[1]) >= LongRun THEN ScoreLongRun
                   ELSE 0)
                  + (IF Len(parts[2]) = MaxSuffix THEN ScoreSuffix ELSE 0)
                  + ScoreBase
  ELSE IF Contains(p, SepShort) /\ Len(Split(p, SepShort)[1]) >= MinRun
    THEN ScoreShort
  ELSE IF Len(p) >= MinRun THEN ScoreBase ELSE 0

\* ------------------------------------------ TextExtractor._extract_from_text

RECURSIVE NormAll(_)
NormAll(ms) ==
  IF ms = <<>> THEN <<>>
  ELSE LET norm == _norm(Head(ms))
       IN  (IF norm # <<>> THEN <<norm>> ELSE <<>>) \o NormAll(Tail(ms))

\* ExtractFrom stopping at the first rule that matches
RECURSIVE ExtractFromFirst(_, _)
ExtractFromFirst(text, pat) ==
  IF pat > NumPatterns THEN <<>>
  ELSE IF FindIter(pat, text, 1) # <<>> THEN NormAll(FindIter(pat, text, 1))
  ELSE ExtractFromFirst(text, pat + 1)

RECURSIVE ExtractFrom(_, _)
ExtractFrom(text, pat) ==
  IF pat > NumPatterns THEN <<>>
  ELSE NormAll(FindIter(pat, text, 1)) \o ExtractFrom(text, pat + 1)

_extract_from_text(text) == ExtractFrom(_clean_text(text), 1)

\* ------------------------------------------------ PatternRefiner._levenshtein

\* LevRow charging a substitution even where the characters agree
RECURSIVE LevRowFlat(_, _, _, _, _)
LevRowFlat(a, b, i, prev, cur) ==
  LET j == Len(cur)
  IN  IF j > Len(b) THEN cur
      ELSE LET v == Min2(prev[j + 1] + 1, Min2(cur[j] + 1, prev[j] + 1))
           IN  LevRowFlat(a, b, i, prev, Append(cur, v))

\* row i of the table from row i - 1: prev[j + 1] is dp[i-1][j], and cur holds
\* dp[i][0] .. dp[i][Len(cur) - 1]
RECURSIVE LevRow(_, _, _, _, _)
LevRow(a, b, i, prev, cur) ==
  LET j == Len(cur)
  IN  IF j > Len(b) THEN cur
      ELSE LET cost == IF a[i] = b[j] THEN 0 ELSE 1
               v == Min2(prev[j + 1] + 1, Min2(cur[j] + 1, prev[j] + cost))
           IN  LevRow(a, b, i, prev, Append(cur, v))

\* the last row of the table, from row i - 1 (prev) on
RECURSIVE LevRows(_, _, _, _)
LevRows(a, b, i, prev) ==
  IF i > Len(a) THEN prev
  ELSE LET row == LevRow(a, b, i, prev, <<i>>)
       IN  IF Len(row) = Len(prev) THEN LevRows(a, b, i + 1, row) ELSE <<>>

_levenshtein(a, b) ==
  IF a = b THEN 0
  ELSE LevRows(a, b, 1, [j \in 1..(Len(b) + 1) |-> j - 1])[Len(b) + 1]

\* -------------------------------------------------- PatternRefiner.choose_best

\* the candidates in first-seen order, each once
RECURSIVE UniqueFrom(_, _, _)
UniqueFrom(cands, n, unique) ==
  IF n > Len(cands) THEN unique
  ELSE IF \E m \in DOMAIN unique : unique[m] = cands[n]
    THEN UniqueFrom(cands, n + 1, unique)
    ELSE UniqueFrom(cands, n + 1, Append(unique, cands[n]))

Unique(cands) == UniqueFrom(cands, 1, <<>>)

\* best_dist is None before the first candidate is measured
NoDist == -1

\* "if best_dist is None or d < best_dist: best_dist = d"
Closer(best_dist, d) ==
  IF best_dist = NoDist \/ d < best_dist THEN d ELSE best_dist

\* best_dist after the loop over unique[n..]: the smallest distance so far
RECURSIVE BestDist(_, _, _, _)
BestDist(unique, ground_truth, n, best_dist) ==
  IF n > Len(unique) THEN best_dist
  ELSE BestDist(unique, ground_truth, n + 1,
                Closer(best_dist, _levenshtein(unique[n], ground_truth)))

\* score_map.get(c, 0.0)
ScoreGet(score_map, c) == IF c \in DOMAIN score_map THEN score_map[c] ELSE 0

\* MaxByScore keeping the last of the elements with the largest key
RECURSIVE MaxByScoreLast(_, _, _, _)
MaxByScoreLast(unique, score_map, n, best) ==
  IF n > Len(unique) THEN best
  ELSE MaxByScoreLast(unique, score_map, n + 1,
                      IF ScoreGet(score_map, unique[n]) >= ScoreGet(score_map, best)
                        THEN unique[n] ELSE best)

\* MaxByScore that keeps the candidate it starts from
MaxByScoreFirst(unique, score_map, n, best) == best

\* max(unique, key=...): the first element whose key no element exceeds
RECURSIVE MaxByScore(_, _, _, _)
MaxByScore(unique, score_map, n, best) ==
  IF n > Len(unique) THEN best
  ELSE MaxByScore(unique, score_map, n + 1,
                  IF ScoreGet(score_map, unique[n]) > ScoreGet(score_map, best)
                    THEN unique[n] ELSE best)

\* choose_best returning the closest candidate where it should return the
\* reference
RECURSIVE ClosestFrom(_, _, _, _)
ClosestFrom(unique, ground_truth, n, closest) ==
  IF n > Len(unique) THEN closest
  ELSE ClosestFrom(unique, ground_truth, n + 1,
                   IF _levenshtein(unique[n], ground_truth)
                        < _levenshtein(closest, ground_truth)
                     THEN unique[n] ELSE closest)

choose_best_closest(raw_candidates, score_map, ground_truth, max_snap) ==
  IF raw_candidates = <<>> THEN None
  ELSE LET unique == Unique(raw_candidates)
       IN  IF /\ Truthy(ground_truth)
              /\ BestDist(unique, ground_truth, 1, NoDist) <= max_snap
             THEN ClosestFrom(unique, ground_truth, 2, unique[1])
             ELSE MaxByScore(unique, score_map, 2, unique[1])

\* choose_best comparing with < where it should compare with <=
choose_best_strict(raw_candidates, score_map, ground_truth, max_snap) ==
  IF raw_candidates = <<>> THEN None
  ELSE LET unique == Unique(raw_candidates)
       IN  IF /\ Truthy(ground_truth)
              /\ BestDist(unique, ground_truth, 1, NoDist) < max_snap
             THEN ground_truth
             ELSE MaxByScore(unique, score_map, 2, unique[1])

\* choose_best returning the reference however far the candidates are
choose_best_always(raw_candidates, score_map, ground_truth, max_snap) ==
  IF raw_candidates = <<>> THEN None
  ELSE LET unique == Unique(raw_candidates)
       IN  IF Truthy(ground_truth)
             THEN ground_truth
             ELSE MaxByScore(unique, score_map, 2, unique[1])

\* choose_best without its guard for an empty candidate list
choose_best_unguarded(raw_candidates, score_map, ground_truth, max_snap) ==
  LET unique == Unique(raw_candidates)
  IN  IF /\ Truthy(ground_truth)
         /\ BestDist(unique, ground_truth, 1, NoDist) <= max_snap
        THEN ground_truth
        ELSE IF unique = <<>> THEN None
        ELSE MaxByScore(unique, score_map, 2, unique[1])

choose_best(raw_candidates, score_map, ground_truth, max_snap) ==
  IF raw_candidates = <<>> THEN None
  ELSE LET unique == Unique(raw_candidates)
       IN  IF /\ Truthy(ground_truth)
              /\ BestDist(unique, ground_truth, 1, NoDist) <= max_snap
             THEN ground_truth
             ELSE MaxByScore(unique, score_map, 2, unique[1])

\* -------------------------------------------------------------- the inputs

\* the digits OCR reads off a label, cut to the run lengths tried
DigitsBase ==
  <<"1", "5", "6", "3", "8", "7", "4", "2", "6", "4", "1", "4", "7", "2",
    "4", "5", "4", "4", "9", "0", "7", "1", "2">>

\* the letters after the separator, in mixed case
SuffixBase == <<"l", "W", "V", "x", "Y", "z">>

\* the shortest and the longest digit run in a raw text
MinRawRun == 14

MaxRawRun == 21

\* the longest letter run after the separator in a raw text
MaxRawSuffix == 4

Run(k) == SubSeq(DigitsBase, 1, k)

Suffix(m) == SubSeq(SuffixBase, 1, m)

\* how OCR renders the separator: missing, cut short, exact, or spaced out
SepForms == {<<>>, SepShort, Sep, <<" ", "_", " ", "1", " ", "_", " ">>}

\* a digit run, a separator form and a letter run
Core(k, sv, m) == Run(k) \o sv \o Suffix(m)

Cores ==
  {Core(k, sv, m) : k \in MinRawRun..MaxRawRun, sv \in SepForms,
                    m \in 0..MaxRawSuffix}

\* the words OCR reads before the code
Prefixes ==
  {<<"r", "e", "v", "e", "r", "s", "e", "W", "a", "y", "b", "i", "l", "l", " ">>,
   <<"N", "o", " ", "4", "2", " ">>}

Prefixed ==
  {pre \o Core(CanonRun, sv, m) : pre \in Prefixes, sv \in SepForms,
                                  m \in 0..MaxRawSuffix}

\* blanks OCR injects inside a digit run
Gaps == {<<" ">>, <<"\t", "\r", "\n">>}

GapAt == 7

Gapped ==
  {SubSeq(Run(k), 1, GapAt) \o g \o SubSeq(Run(k), GapAt + 1, k) \o sv \o Suffix(m) :
     k \in MinRawRun..MaxRawRun, g \in Gaps, sv \in {<<>>, Sep}, m \in {0, MaxSuffix}}

\* one digit of the run misread as a letter
Misread ==
  {SubSeq(Run(CanonRun), 1, CanonRun - 1) \o <<"X">> \o sv \o LowerStr(Suffix(m)) :
     sv \in SepForms, m \in 0..MaxRawSuffix}

\* the separator read twice: doubled, overlapping, and after a short suffix
Repeated ==
  {Run(CanonRun) \o Sep \o Sep,
   Run(CanonRun) \o Sep \o <<"1", "_">> \o Suffix(MaxSuffix),
   Run(CanonRun) \o Sep \o Suffix(2) \o Sep \o Suffix(1)}

RawTexts == Cores \cup Prefixed \cup Gapped \cup Misread \cup Repeated

\* a bare 16-digit run, and a second code of the canonical shape
OtherRun ==
  <<"1", "2", "3", "4", "5", "6", "7", "8", "9", "0", "1", "2", "3", "4",
    "5", "6">>

OtherCode ==
  <<"9", "9", "8", "8", "7", "7", "6", "6", "5", "5", "4", "4", "3", "3",
    "2", "2", "1", "1", "_", "1", "_", "a", "b", "c">>

Companions == {OtherRun, OtherCode, Core(CanonRun, Sep, MaxSuffix)}

\* the texts that share a pool with a companion
PairTexts ==
  {Core(k, sv, m) : k \in MinRawRun..MaxRawRun, sv \in {<<>>, Sep},
                    m \in {0, MaxSuffix}}

\* one code of the canonical shape as several OCR passes read it: after other
\* words or not, its letters in either case
CodeReadings ==
  {pre \o Run(CanonRun) \o Sep \o suf :
     pre \in Prefixes \cup {<<>>},
     suf \in {Suffix(MaxSuffix), <<"L", "W", "V">>}}

\* the fused raw text pools: empty, one text, a text and a companion in either
\* order, or two readings of one code
Pools ==
  {<<>>} \cup {<<t>> : t \in RawTexts}
    \cup {<<t, c>> : t \in PairTexts, c \in Companions}
    \cup {<<c, t>> : t \in PairTexts, c \in Companions}
    \cup {<<t, c>> : t \in CodeReadings, c \in CodeReadings}

\* the known-correct label of image ImgA
Reference ==
  <<"1", "5", "6", "3", "8", "7", "4", "2", "6", "4", "1", "4", "7", "2",
    "4", "5", "4", "4", "_", "1", "_", "l", "w", "v">>

ImgA == <<"a", ".", "j", "p", "g">>

ImgB == <<"b", ".", "j", "p", "g">>

ImgC == <<"c", ".", "j", "p", "g">>

\* image_name: absent, mapped to a label, mapped to "", not in the map
ImageNames == {None, ImgA, ImgB, ImgC}

\* the pools tried under every image name
LookupPools == {<<>>} \cup {<<Core(CanonRun, sv, m)>> : sv \in SepForms,
                                                       m \in 0..MaxRawSuffix}

\* the calls of extract_best_from_texts(texts, image_name)
ExtractCalls ==
  (Pools \X {None, ImgA}) \cup (LookupPools \X ImageNames)

\* load_ground_truth's dict
GroundTruthMap == (ImgA :> Reference) @@ (ImgB :> <<>>)

DefaultMaxSnap == 3

\* the words handed to choose_best directly: runs of one letter
MaxWord == 5

Word(c, n) == [j \in 1..n |-> c]

\* the strings handed to _levenshtein directly: all of a's and b's up to a length
MaxLevLen == 3

LevAlphabet == {"a", "b"}

LevWords == UNION {[1..n -> LevAlphabet] : n \in 0..MaxLevLen}

RefinerWords ==
  {Word("a", n) : n \in 0..MaxWord} \cup {Word("b", n) : n \in 1..2}

\* the candidate lists handed to choose_best directly
MaxCands == 2

RefinerLists ==
  UNION {[1..n -> RefinerWords] : n \in 0..MaxCands}

\* the score maps handed with a candidate list: some or all of its candidates
RefinerScores == {1, 2}

Range(f) == {f[n] : n \in DOMAIN f}

RefinerMaps(cands) ==
  UNION {[D -> RefinerScores] : D \in SUBSET Range(cands)}

\* the references handed to choose_best directly
RefinerRefs == {None, <<>>, Word("a", MaxWord - 1), Word("b", 1)}

\* the candidates handed to _score directly: the three canonical shapes
ScoreArgs ==
  {Run(k) : k \in 0..(MaxRawRun + 1)}
    \cup {Run(k) \o SepShort : k \in 0..(MaxRawRun + 1)}
    \cup {Run(k) \o Sep \o LowerStr(Suffix(m)) :
            k \in 0..(MaxRawRun + 1), m \in 0..MaxRawSuffix}

\* ------------------------------------------------------------------ the state

VARIABLES
  gt_map,          \* TextExtractor.gt_map
  max_snap,        \* TextExtractor.refiner.max_snap
  pc,              \* "idle", or where the running call stands
  op,              \* the method that was called
  texts,           \* extract_best_from_texts: its arguments ...
  image_name,
  t_idx,           \* ... the position of "for t in texts"
  all_cands,       \* ... all_cands (choose_best: raw_candidates)
  c_idx,           \* ... the position of "for c in all_cands"
  score_map,       \* ... score_map
  gt,              \* ... gt (choose_best: ground_truth)
  best,            \* ... the value returned
  refined,         \* whether choose_best ran in this call
  p,               \* _score: its argument
  sc               \* _score: the value returned

VARIABLES
  use_easyocr,     \* OCREngine.use_easyocr (the reader is set exactly when true)
  o_pc,            \* "idle", or where the running call of ocr_rois stands
  rois,            \* ocr_rois: its argument, the kind of image of every region
  r_idx,           \* ... the position of "for roi in rois"
  variants,        \* ... len(vars) of every region reached so far
  v_idx,           \* ... the position of "for v in vars"
  out,             \* ... out
  final,           \* ... final, the value returned
  calls,           \* the provider invocations made: <<provider, region, variant>>
  returns          \* of every _ocr_tess and _ocr_easy call, in order: the method,
                   \* the non-empty texts its provider read, the list returned,
                   \* what the provider did (Raised if EasyOCR was not reached)

VARIABLES
  failing,         \* _generate_variants: the cv2 calls that raise for this region
  attempted,       \* ... the cv2 calls it made
  cleaned          \* ... cleaned, the value returned

VARIABLES
  entry,           \* the entry point that is running, "none" if none is
  s_pc,            \* process_single, run_inference: where the call stands
  img,             \* ... the image at img_path: its file name and its size
  regions,         \* ... rois, the crops get_candidate_rois returned
  ocr_texts,       \* ... ocr_texts
  invoked,         \* ... the collaborators called after get_candidate_rois
  prediction,      \* ... prediction, what the extractor returned
  pred,            \* ... the value returned
  b_pc,            \* run_batch: where the call stands
  images,          \* ... images
  i_idx,           \* ... the position of "for img in images"
  preds,           \* ... preds
  gts,             \* ... gts
  details,         \* ... details
  read,            \* ... the pool ocr_rois returned for every image so far
  summary          \* ... summary

extractor == <<gt_map, max_snap>>

\* the state of extract_best_from_texts, choose_best and _score
text ==
  <<extractor, pc, op, texts, image_name, t_idx, all_cands, c_idx, score_map,
    gt, best, refined, p, sc>>

\* the state of the OCR engine and of its running call
engine ==
  <<use_easyocr, o_pc, rois, r_idx, variants, v_idx, out, final, calls, returns>>

\* the state of a direct call of _generate_variants
generator == <<failing, attempted, cleaned>>

\* the state of a call of process_single or run_inference
single == <<s_pc, img, regions, ocr_texts, invoked, prediction, pred>>

\* the state of a call of run_batch
batch == <<b_pc, images, i_idx, preds, gts, details, read, summary>>

\* what neither the text stage nor ocr_rois touches
others == <<generator, entry, single, batch>>

vars == <<text, engine, others>>

\* no direct call of _generate_variants is running
GeneratorIdle ==
  /\ failing = {}
  /\ attempted = {}
  /\ cleaned = <<>>

\* no call of process_single or run_inference is running
SingleIdle ==
  /\ s_pc = "idle"
  /\ img = None
  /\ regions = <<>>
  /\ ocr_texts = <<>>
  /\ invoked = {}
  /\ prediction = None
  /\ pred = <<>>

\* no call of run_batch is running
BatchIdle ==
  /\ b_pc = "idle"
  /\ images = <<>>
  /\ i_idx = 0
  /\ preds = <<>>
  /\ gts = <<>>
  /\ details = <<>>
  /\ read = <<>>
  /\ summary = None

OthersIdle == GeneratorIdle /\ entry = "none" /\ SingleIdle /\ BatchIdle

\* no call of ocr_rois is running
EngineIdle ==
  /\ o_pc = "idle"
  /\ rois = <<>>
  /\ r_idx = 0
  /\ variants = <<>>
  /\ v_idx = 0
  /\ out = <<>>
  /\ final = <<>>
  /\ calls = {}
  /\ returns = <<>>

\* the empty dict
EmptyMap == [c \in {} |-> 0]

\* no call on the extractor is running
TextIdle ==
  /\ pc = "idle"
  /\ op = "none"
  /\ texts = <<>>
  /\ image_name = None
  /\ t_idx = 0
  /\ all_cands = <<>>
  /\ c_idx = 0
  /\ score_map = EmptyMap
  /\ gt = None
  /\ best = None
  /\ refined = FALSE
  /\ p = <<>>
  /\ sc = 0

\* the extractor as run_batch constructs it, no call running
TextInit ==
  /\ gt_map = GroundTruthMap
  /\ max_snap = DefaultMaxSnap
  /\ TextIdle

\* OCREngine(use_easyocr=True), its reader initialized
Init ==
  /\ TextInit
  /\ use_easyocr = TRUE
  /\ EngineIdle
  /\ OthersIdle

\* a call of extract_best_from_texts(texts, image_name)
CallExtract ==
  /\ pc = "idle"
  /\ \E call \in ExtractCalls :
       /\ texts' = call[1]
       /\ image_name' = call[2]
  /\ pc' = "extract"
  /\ op' = "extract_best_from_texts"
  /\ t_idx' = 1
  /\ all_cands' = <<>>
  /\ UNCHANGED <<engine, others, extractor, c_idx, score_map, gt, best, refined, p, sc>>

\* one round of "for t in texts: all_cands.extend(self._extract_from_text(t))"
ExtractText ==
  /\ pc = "extract"
  /\ t_idx <= Len(texts)
  /\ \E found \in {_extract_from_text(texts[t_idx])} :
       IF \E n \in DOMAIN found : found[n] = ValueError
         THEN /\ pc' = "raised"
              /\ UNCHANGED <<t_idx, all_cands>>
         ELSE /\ pc' = pc
              /\ t_idx' = t_idx + 1
              /\ all_cands' = all_cands \o found
  /\ UNCHANGED <<engine, others, extractor, op, texts, image_name, c_idx, score_map, gt, best,
                 refined, p, sc>>

\* "if not all_cands: return None", else on to the scoring loop
ExtractDone ==
  /\ pc = "extract"
  /\ t_idx > Len(texts)
  /\ IF all_cands = <<>>
       THEN /\ pc' = "done"
            /\ best' = None
            /\ UNCHANGED <<c_idx, score_map>>
       ELSE /\ pc' = "score"
            /\ c_idx' = 1
            /\ score_map' = EmptyMap
            /\ UNCHANGED best
  /\ UNCHANGED <<engine, others, extractor, op, texts, image_name, t_idx, all_cands, gt,
                 refined, p, sc>>

\* one round of "for c in all_cands: score_map[c] = max(score_map.get(c, 0), sc)"
ScoreCandidate ==
  /\ pc = "score"
  /\ c_idx <= Len(all_cands)
  /\ \E c \in {all_cands[c_idx]} : \E s \in {_score(c)} :
       IF s = -1
         THEN /\ pc' = "raised"
              /\ UNCHANGED <<c_idx, score_map>>
         ELSE /\ pc' = pc
              /\ c_idx' = c_idx + 1
              /\ score_map' =
                   [k \in DOMAIN score_map \cup {c} |->
                      IF k = c THEN Max2(ScoreGet(score_map, c), s)
                      ELSE score_map[k]]
  /\ UNCHANGED <<engine, others, extractor, op, texts, image_name, t_idx, all_cands, gt, best,
                 refined, p, sc>>

\* the reference looked up for image_name, None if there is none
LookupGt(name, map) ==
  IF Truthy(name) /\ name \in DOMAIN map THEN map[name] ELSE None

\* the lookup of gt, the call of the refiner and the return of its choice
ChooseAndReturn ==
  /\ pc = "score"
  /\ c_idx > Len(all_cands)
  /\ gt' = LookupGt(image_name, gt_map)
  /\ best' = choose_best(all_cands, score_map, gt', max_snap)
  /\ refined' = TRUE
  /\ pc' = "done"
  /\ UNCHANGED <<engine, others, extractor, op, texts, image_name, t_idx, all_cands, c_idx,
                 score_map, p, sc>>

\* a call of choose_best(raw_candidates, score_map, ground_truth) on the
\* extractor's refiner
CallChooseBest ==
  /\ pc = "idle"
  /\ \E cands \in RefinerLists, ref \in RefinerRefs :
       \E map \in RefinerMaps(cands) :
         /\ all_cands' = cands
         /\ score_map' = map
         /\ gt' = ref
         /\ best' = choose_best(cands, map, ref, max_snap)
  /\ pc' = "done"
  /\ op' = "choose_best"
  /\ refined' = TRUE
  /\ UNCHANGED <<engine, others, extractor, texts, image_name, t_idx, c_idx, p, sc>>

\* a call of _levenshtein(a, b) on the refiner: a is kept in p, b in gt, the
\* distance in sc
CallLevenshtein ==
  /\ pc = "idle"
  /\ \E a \in LevWords, b \in LevWords :
       /\ p' = a
       /\ gt' = b
       /\ sc' = _levenshtein(a, b)
  /\ pc' = "done"
  /\ op' = "_levenshtein"
  /\ UNCHANGED <<engine, others, extractor, texts, image_name, t_idx, all_cands, c_idx,
                 score_map, best, refined>>

\* a call of _score(p)
CallScore ==
  /\ pc = "idle"
  /\ \E arg \in ScoreArgs :
       /\ p' = arg
       /\ sc' = _score(arg)
  /\ pc' = "done"
  /\ op' = "_score"
  /\ UNCHANGED <<engine, others, extractor, texts, image_name, t_idx, all_cands, c_idx,
                 score_map, gt, best, refined>>

\* the caller takes the result; the next call starts from a fresh frame
Return ==
  /\ pc = "done"
  /\ pc' = "idle"
  /\ op' = "none"
  /\ texts' = <<>>
  /\ image_name' = None
  /\ t_idx' = 0
  /\ all_cands' = <<>>
  /\ c_idx' = 0
  /\ score_map' = EmptyMap
  /\ gt' = None
  /\ best' = None
  /\ refined' = FALSE
  /\ p' = <<>>
  /\ sc' = 0
  /\ UNCHANGED <<engine, others, extractor>>

Next ==
  \/ CallExtract
  \/ ExtractText
  \/ ExtractDone
  \/ ScoreCandidate
  \/ ChooseAndReturn
  \/ CallChooseBest
  \/ CallScore
  \/ CallLevenshtein
  \/ Return

Spec == Init /\ [][Next]_vars

\* ---------------------------------------------------------------- OCREngine

\* the value that stands for an exception raised by a provider
Raised == <<"<raised>">>

\* len(self.tess_configs)
NumConfigs == 4

\* _ocr_tess on an image of which the configurations read readings[1..4]:
\* every reading that is not an exception is stripped and kept unless empty
\* TessFrom giving up at the first configuration that raises
RECURSIVE TessFromAbort(_, _)
TessFromAbort(readings, n) ==
  IF n > NumConfigs \/ readings[n] = Raised THEN <<>>
  ELSE LET t == Strip(readings[n])
       IN  (IF t # <<>> THEN <<t>> ELSE <<>>) \o TessFromAbort(readings, n + 1)

RECURSIVE TessFrom(_, _)
TessFrom(readings, n) ==
  IF n > NumConfigs THEN <<>>
  ELSE LET t == IF readings[n] = Raised THEN <<>> ELSE Strip(readings[n])
       IN  (IF t # <<>> THEN <<t>> ELSE <<>>) \o TessFrom(readings, n + 1)

_ocr_tess(readings) == TessFrom(readings, 1)

\* " ".join(texts)
RECURSIVE Join(_)
Join(ts) ==
  IF ts = <<>> THEN <<>>
  ELSE IF Len(ts) = 1 THEN ts[1]
  ELSE ts[1] \o <<" ">> \o Join(Tail(ts))

\* _ocr_easy on a region: nothing when EasyOCR is off, when the region is not a
\* grayscale image (cvtColor with COLOR_GRAY2RGB raises) or when readtext
\* raises; else the non-empty fragments read, in order, and then their join
_ocr_easy(enabled, gray, reading) ==
  IF ~enabled \/ ~gray \/ reading = Raised THEN <<>>
  ELSE LET ts == SelectSeq(reading, LAMBDA t : t # <<>>)
       IN  IF ts # <<>> THEN Append(ts, Join(ts)) ELSE ts

\* Dedupe keeping a string however often it comes
RECURSIVE DedupeKeepAll(_, _, _)
DedupeKeepAll(texts_out, n, built) ==
  IF n > Len(texts_out) THEN built
  ELSE LET t == Strip(texts_out[n])
       IN  DedupeKeepAll(texts_out, n + 1,
                         IF t # <<>> THEN Append(built, t) ELSE built)

\* the "dedupe" loop of ocr_rois from out[n] on, final being built
RECURSIVE Dedupe(_, _, _)
Dedupe(texts_out, n, built) ==
  IF n > Len(texts_out) THEN built
  ELSE LET t == Strip(texts_out[n])
       IN  Dedupe(texts_out, n + 1,
                  IF t # <<>> /\ t \notin Range(built) THEN Append(built, t)
                  ELSE built)

\* the try blocks of _generate_variants in order, each with the cv2 calls whose
\* results it appends: CLAHE, bilateral filter and Otsu threshold, the adaptive
\* threshold of block size 31 and its bitwise_not, the same for 41, the
\* sharpening filter, the morphological close
Transforms ==
  <<<<"clahe">>, <<"otsu">>, <<"adaptive31", "inverse31">>,
    <<"adaptive41", "inverse41">>, <<"sharpen">>, <<"close">>>>

\* the cv2 calls in the order of the code
TransformCalls ==
  <<"clahe", "otsu", "adaptive31", "inverse31", "adaptive41", "inverse41",
    "sharpen", "close">>

\* one "try: ... except: pass": what was appended when the block was left
RECURSIVE TryFrom(_, _, _)
TryFrom(block, n, fails) ==
  IF n > Len(block) \/ block[n] \in fails THEN <<>>
  ELSE <<block[n]>> \o TryFrom(block, n + 1, fails)

\* the calls a block made: up to and including the first that raises
RECURSIVE RanFrom(_, _, _)
RanFrom(block, n, fails) ==
  IF n > Len(block) THEN {}
  ELSE IF block[n] \in fails THEN {block[n]}
  ELSE {block[n]} \cup RanFrom(block, n + 1, fails)

\* the blocks inside one try: the first call that raises ends them all
RECURSIVE VariantsFromAbort(_, _)
VariantsFromAbort(b, fails) ==
  IF b > Len(Transforms) THEN <<>>
  ELSE LET got == TryFrom(Transforms[b], 1, fails)
       IN  IF Len(got) < Len(Transforms[b]) THEN got
           ELSE got \o VariantsFromAbort(b + 1, fails)

\* the blocks one after the other
RECURSIVE VariantsFrom(_, _)
VariantsFrom(b, fails) ==
  IF b > Len(Transforms) THEN <<>>
  ELSE TryFrom(Transforms[b], 1, fails) \o VariantsFrom(b + 1, fails)

\* v.__array_interface__["data"][0]: every array of vars is alive and has a
\* buffer of its own, so the address names the array
DataPointer(v) == v

\* "for v in vars: if vid not in seen"
RECURSIVE DedupeVariants(_, _, _)
DedupeVariants(vs, n, seen) ==
  IF n > Len(vs) THEN <<>>
  ELSE IF DataPointer(vs[n]) \in seen THEN DedupeVariants(vs, n + 1, seen)
  ELSE <<vs[n]>> \o DedupeVariants(vs, n + 1, seen \cup {DataPointer(vs[n])})

_generate_variants(gray, fails) ==
  DedupeVariants(<<gray>> \o VariantsFrom(1, fails), 1, {})

\* the cv2 calls _generate_variants makes
CallsMade(fails) ==
  UNION {RanFrom(Transforms[b], 1, fails) : b \in DOMAIN Transforms}

\* the regions ocr_rois is given: every cv2 call from the n-th on raises
FailingFrom(n) ==
  {TransformCalls[k] : k \in {k \in DOMAIN TransformCalls : k >= n}}

\* the regions handed to ocr_rois: grayscale (2-D) or colour (3-D) images
RoiLists ==
  {<<>>, <<"gray">>, <<"bgr">>, <<"gray", "gray">>, <<"bgr", "gray">>}

\* how many variants _generate_variants may return in the model (the region
\* itself is always the first; every further step may fail and add none)
MaxVariants == 2

\* what the four configurations of Tesseract may read on one image
TessReadings ==
  {<<Raised, <<>>, <<" ", "\n">>, Raised>>,
   <<<<"a", " ", "b", "\n">>, <<>>, <<"a", " ", "b">>, <<"c">>>>,
   <<Raised, <<"d", "\n">>, Raised, <<>>>>}

\* what readtext may read on one image: an exception, or its fragments
EasyReadings ==
  {Raised,
   <<<<"a">>, <<>>, <<"b">>>>,
   <<<<" ", "c", " ">>>>,
   <<<<" ">>, <<" ">>>>}

\* a call of _generate_variants on a grayscale region
CallGenerateVariants ==
  /\ o_pc = "idle"
  /\ \E fails \in SUBSET Range(TransformCalls) :
       /\ failing' = fails
       /\ attempted' = CallsMade(fails)
       /\ cleaned' = _generate_variants("gray", fails)
  /\ o_pc' = "generated"
  /\ UNCHANGED <<text, entry, single, batch, use_easyocr, rois, r_idx, variants,
                 v_idx, out, final, calls, returns>>

\* the caller takes the variants
GenerateReturn ==
  /\ o_pc = "generated"
  /\ o_pc' = "idle"
  /\ failing' = {}
  /\ attempted' = {}
  /\ cleaned' = <<>>
  /\ UNCHANGED <<text, entry, single, batch, use_easyocr, rois, r_idx, variants,
                 v_idx, out, final, calls, returns>>

\* a call of ocr_rois(rois)
CallOcrRois ==
  /\ o_pc = "idle"
  /\ \E rs \in RoiLists : rois' = rs
  /\ o_pc' = "roi"
  /\ r_idx' = 1
  /\ out' = <<>>
  /\ UNCHANGED <<text, others, use_easyocr, variants, v_idx, final, calls, returns>>

\* "for roi in rois": gray, and vars = self._generate_variants(gray)
GenerateVariants ==
  /\ o_pc = "roi"
  /\ r_idx <= Len(rois)
  /\ \E n \in 1..MaxVariants :
       variants' = Append(variants, Len(_generate_variants("gray", FailingFrom(n))))
  /\ v_idx' = 1
  /\ o_pc' = "tess"
  /\ UNCHANGED <<text, others, use_easyocr, rois, r_idx, out, final, calls, returns>>

\* one round of "for v in vars: out.extend(self._ocr_tess(v))"
OcrTess ==
  /\ o_pc = "tess"
  /\ v_idx <= variants[r_idx]
  /\ \E readings \in TessReadings :
       /\ out' = out \o _ocr_tess(readings)
       /\ returns' = Append(returns, <<"_ocr_tess", _ocr_tess(readings),
                                       _ocr_tess(readings), readings>>)
  /\ calls' = calls \cup {<<"tesseract", r_idx, v_idx>>}
  /\ v_idx' = v_idx + 1
  /\ UNCHANGED <<text, others, use_easyocr, o_pc, rois, r_idx, variants, final>>

\* "out.extend(self._ocr_easy(roi))": readtext is reached only with EasyOCR on
\* and a grayscale region, which is vars[0] itself
OcrEasy ==
  /\ o_pc = "tess"
  /\ v_idx > variants[r_idx]
  /\ \E reading \in EasyReadings :
       \E got \in {_ocr_easy(use_easyocr, rois[r_idx] = "gray", reading)} :
         /\ out' = out \o got
         /\ returns' =
              Append(returns,
                     <<"_ocr_easy",
                       IF use_easyocr /\ rois[r_idx] = "gray" /\ reading # Raised
                         THEN SelectSeq(reading, LAMBDA t : t # <<>>)
                         ELSE <<>>,
                       got,
                       IF use_easyocr /\ rois[r_idx] = "gray" THEN reading
                       ELSE Raised>>)
  /\ calls' = IF use_easyocr /\ rois[r_idx] = "gray"
                THEN calls \cup {<<"easyocr", r_idx, 1>>}
                ELSE calls
  /\ r_idx' = r_idx + 1
  /\ o_pc' = "roi"
  /\ UNCHANGED <<text, others, use_easyocr, rois, variants, v_idx, final>>

\* the "dedupe" loop and "return final"
DedupeAndReturn ==
  /\ o_pc = "roi"
  /\ r_idx > Len(rois)
  /\ final' = Dedupe(out, 1, <<>>)
  /\ o_pc' = "done"
  /\ UNCHANGED <<text, others, use_easyocr, rois, r_idx, variants, v_idx, out, calls,
                 returns>>

\* the caller takes the pool; the next call starts from a fresh frame
OcrReturn ==
  /\ o_pc = "done"
  /\ o_pc' = "idle"
  /\ rois' = <<>>
  /\ r_idx' = 0
  /\ variants' = <<>>
  /\ v_idx' = 0
  /\ out' = <<>>
  /\ final' = <<>>
  /\ calls' = {}
  /\ returns' = <<>>
  /\ UNCHANGED <<text, others, use_easyocr>>

\* OCREngine(use_easyocr=...): EasyOCR on, or off (not asked for, or its
\* initialization failed)
OcrInit ==
  /\ TextInit
  /\ use_easyocr \in BOOLEAN
  /\ EngineIdle
  /\ OthersIdle

OcrNext ==
  \/ CallGenerateVariants
  \/ GenerateReturn
  \/ CallOcrRois
  \/ GenerateVariants
  \/ OcrTess
  \/ OcrEasy
  \/ DedupeAndReturn
  \/ OcrReturn

OcrSpec == OcrInit /\ [][OcrNext]_vars

\* ------------------------------------------------- ImagePreprocessor, entry

\* ImagePreprocessor.max_width
MaxWidth == 1600

\* int(x * 0.n) for a two-digit n, as in int(h*0.30)
Pct(x, n) == (x * n) \div 100

\* _resize on the size <<h, w>> of an image: wider than max_width, it is scaled
\* to max_width and int(h * scale) rows
_resize(size) ==
  IF size[2] <= MaxWidth THEN size
  ELSE <<(size[1] * MaxWidth) \div size[2], MaxWidth>>

\* r.size of the crop gray[r0:r1, c0:c1], written <<r0, r1, c0, c1>>
Size(r) ==
  IF r[2] > r[1] /\ r[4] > r[3] THEN (r[2] - r[1]) * (r[4] - r[3]) ELSE 0

\* the six crops of a frame of h rows and w columns
Crops(h, w) ==
  <<<<0, h, 0, w>>,
    <<Pct(h, 30), Pct(h, 60), 0, w>>,
    <<Pct(h, 60), h, 0, w>>,
    <<0, h, Pct(w, 45), w>>,
    <<Pct(h, 60), h, Pct(w, 45), w>>,
    <<Pct(h, 25), Pct(h, 75), Pct(w, 15), Pct(w, 85)>>>>

\* get_candidate_rois without "if img is None: return []": a frame is made up
get_candidate_roisBlind(size) ==
  IF size = None THEN <<<<0, 1, 0, 1>>>>
  ELSE SelectSeq(Crops(_resize(size)[1], _resize(size)[2]),
                 LAMBDA r : Size(r) > 0)

\* get_candidate_rois on an image of the given size, None if it cannot be
\* loaded; _gray and _normalize keep the size
get_candidate_rois(size) ==
  IF size = None THEN <<>>
  ELSE SelectSeq(Crops(_resize(size)[1], _resize(size)[2]),
                 LAMBDA r : Size(r) > 0)

\* the sides of the small images tried
MaxSide == 3

\* the sizes tried: unloadable, every small size, one wider than max_width
ImageSizes ==
  {None} \cup ((1..MaxSide) \X (1..MaxSide)) \cup {<<MaxSide, 2 * MaxWidth>>}

\* the images handed to process_single and run_inference
Images == {[name |-> n, size |-> z] : n \in {ImgA, ImgC}, z \in ImageSizes}

\* the images of a batch: one with a label, one whose label is "", one that is
\* not in the ground truth and cannot be loaded, one that is not and can
BatchImages ==
  {[name |-> ImgA, size |-> <<MaxSide, MaxSide>>],
   [name |-> ImgB, size |-> <<MaxSide, MaxSide>>],
   [name |-> ImgC, size |-> None],
   [name |-> ImgC, size |-> <<MaxSide, MaxSide>>]}

MaxImages == 2

\* get_image_files(input_dir)[:max_images]
ImageLists ==
  UNION {[1..n -> BatchImages] : n \in 0..MaxImages}

\* the label of ImgA with the last letter of its suffix misread
Smudged == [Reference EXCEPT ![Len(Reference)] = "x"]

\* what ocr_rois returns for the regions of an image: nothing, the label of
\* ImgA as printed, the same with its last letter misread
OcrPools ==
  {<<>>, <<Reference>>, <<Smudged>>}

\* process_single(img_path, ...) is called
CallProcessSingle ==
  /\ entry = "none"
  /\ gt_map = GroundTruthMap
  /\ entry' = "process_single"
  /\ \E i \in Images : img' = i
  /\ s_pc' = "rois"
  /\ UNCHANGED <<text, engine, generator, batch, regions, ocr_texts, invoked,
                 prediction, pred>>

\* run_inference(image_path) is called, app.py's extractor has no ground truth
CallRunInference ==
  /\ entry = "none"
  /\ gt_map = EmptyMap
  /\ entry' = "run_inference"
  /\ \E i \in Images : img' = i
  /\ s_pc' = "rois"
  /\ UNCHANGED <<text, engine, generator, batch, regions, ocr_texts, invoked,
                 prediction, pred>>

\* "rois = pre.get_candidate_rois(img_path); if not rois: return ''"
GetCandidateRois ==
  /\ s_pc = "rois"
  /\ regions' = get_candidate_rois(img.size)
  /\ IF regions' = <<>>
       THEN /\ pred' = <<>>
            /\ s_pc' = "returned"
       ELSE /\ pred' = pred
            /\ s_pc' = "ocr"
  /\ UNCHANGED <<text, engine, generator, entry, batch, img, ocr_texts, invoked,
                 prediction>>

\* "ocr_texts = ocr.ocr_rois(rois)": the pool is what the providers read
OcrRois ==
  /\ s_pc = "ocr"
  /\ \E pool \in OcrPools : ocr_texts' = pool
  /\ invoked' = invoked \cup {"ocr_rois"}
  /\ s_pc' = "texts"
  /\ UNCHANGED <<text, engine, generator, entry, batch, img, regions, prediction,
                 pred>>

\* "extractor.extract_best_from_texts(ocr_texts, img_name)", in run_inference
\* with image_name=None
ExtractBest ==
  /\ s_pc = "texts"
  /\ pc = "idle"
  /\ texts' = ocr_texts
  /\ image_name' = IF entry = "run_inference" THEN None ELSE img.name
  /\ pc' = "extract"
  /\ op' = "extract_best_from_texts"
  /\ t_idx' = 1
  /\ all_cands' = <<>>
  /\ invoked' = invoked \cup {"extract_best_from_texts"}
  /\ s_pc' = "extract"
  /\ UNCHANGED <<engine, generator, entry, batch, extractor, c_idx, score_map,
                 gt, best, refined, p, sc, img, regions, ocr_texts, prediction,
                 pred>>

\* ReturnPrediction of an extractor that keeps what it returned as the
\* image's reference
ReturnPredictionLearning ==
  /\ s_pc = "extract"
  /\ pc = "done"
  /\ prediction' = best
  /\ pred' = IF Truthy(best) THEN best ELSE <<>>
  /\ gt_map' = IF Truthy(best) THEN (img.name :> best) @@ gt_map ELSE gt_map
  /\ s_pc' = "returned"
  /\ pc' = "idle"
  /\ op' = "none"
  /\ texts' = <<>>
  /\ image_name' = None
  /\ t_idx' = 0
  /\ all_cands' = <<>>
  /\ c_idx' = 0
  /\ score_map' = EmptyMap
  /\ gt' = None
  /\ best' = None
  /\ refined' = FALSE
  /\ UNCHANGED <<engine, generator, entry, batch, max_snap, p, sc, img, regions,
                 ocr_texts, invoked>>

\* "return prediction or ''" ("return pattern if pattern else ''")
ReturnPrediction ==
  /\ s_pc = "extract"
  /\ pc = "done"
  /\ prediction' = best
  /\ pred' = IF Truthy(best) THEN best ELSE <<>>
  /\ s_pc' = "returned"
  /\ pc' = "idle"
  /\ op' = "none"
  /\ texts' = <<>>
  /\ image_name' = None
  /\ t_idx' = 0
  /\ all_cands' = <<>>
  /\ c_idx' = 0
  /\ score_map' = EmptyMap
  /\ gt' = None
  /\ best' = None
  /\ refined' = FALSE
  /\ UNCHANGED <<engine, generator, entry, batch, extractor, p, sc, img, regions,
                 ocr_texts, invoked>>

\* the caller of process_single or run_inference takes the value
SingleReturn ==
  /\ entry \in {"process_single", "run_inference"}
  /\ s_pc = "returned"
  /\ entry' = "none"
  /\ s_pc' = "idle"
  /\ img' = None
  /\ regions' = <<>>
  /\ ocr_texts' = <<>>
  /\ invoked' = {}
  /\ prediction' = None
  /\ pred' = <<>>
  /\ UNCHANGED <<text, engine, generator, batch>>

\* the extractor of test_batch.py or of app.py, OCREngine(use_easyocr=True)
EntryInit ==
  /\ gt_map \in {GroundTruthMap, EmptyMap}
  /\ max_snap = DefaultMaxSnap
  /\ TextIdle
  /\ use_easyocr = TRUE
  /\ EngineIdle
  /\ OthersIdle

EntryNext ==
  \/ CallProcessSingle
  \/ CallRunInference
  \/ GetCandidateRois
  \/ OcrRois
  \/ ExtractBest
  \/ ExtractText
  \/ ExtractDone
  \/ ScoreCandidate
  \/ ChooseAndReturn
  \/ ReturnPrediction
  \/ SingleReturn

EntrySpec == EntryInit /\ [][EntryNext]_vars

\* ---------------------------------------------------------------- run_batch

\* gt_map.get(name, "")
GtGet(map, name) == IF name \in DOMAIN map THEN map[name] ELSE <<>>

\* "sum(1 for p, g in zip(preds, gts) if p == g and g)"
RECURSIVE ExactFrom(_, _, _)
ExactFrom(ps, gs, n) ==
  IF n > Len(ps) \/ n > Len(gs) THEN 0
  ELSE (IF ps[n] = gs[n] /\ Truthy(gs[n]) THEN 1 ELSE 0) + ExactFrom(ps, gs, n + 1)

\* run_batch(input_dir, gt_path, max_images) is called: the images are listed,
\* the lists are empty
CallRunBatch ==
  /\ entry = "none"
  /\ gt_map = GroundTruthMap
  /\ entry' = "run_batch"
  /\ \E list \in ImageLists : images' = list
  /\ i_idx' = 1
  /\ b_pc' = "loop"
  /\ UNCHANGED <<text, engine, generator, single, preds, gts, details, read,
                 summary>>

\* "for img in images: ... pred = process_single(img, pre, ocr, extractor, gt_map)"
NextImage ==
  /\ b_pc = "loop"
  /\ s_pc = "idle"
  /\ i_idx <= Len(images)
  /\ img' = images[i_idx]
  /\ s_pc' = "rois"
  /\ UNCHANGED <<text, engine, generator, entry, batch, regions, ocr_texts,
                 invoked, prediction, pred>>

\* process_single has returned: pred, gt and the detail record are appended
AppendResult ==
  /\ b_pc = "loop"
  /\ s_pc = "returned"
  /\ \E name \in {img.name} : \E truth \in {GtGet(gt_map, name)} :
       /\ preds' = Append(preds, pred)
       /\ gts' = Append(gts, truth)
       /\ details' = Append(details, [image_name |-> name,
                                      ground_truth |-> truth,
                                      prediction |-> pred,
                                      correct |-> (pred = truth)])
  /\ read' = Append(read, ocr_texts)
  /\ i_idx' = i_idx + 1
  /\ s_pc' = "idle"
  /\ img' = None
  /\ regions' = <<>>
  /\ ocr_texts' = <<>>
  /\ invoked' = {}
  /\ prediction' = None
  /\ pred' = <<>>
  /\ UNCHANGED <<text, engine, generator, entry, b_pc, images, summary>>

\* after the loop: total, exact and the summary; "accuracy = (exact / total) *
\* 100" raises ZeroDivisionError when there was no image
Summarize ==
  /\ b_pc = "loop"
  /\ s_pc = "idle"
  /\ i_idx > Len(images)
  /\ IF Len(preds) = 0
       THEN /\ b_pc' = "raised"
            /\ summary' = summary
       ELSE /\ b_pc' = "done"
            /\ summary' = [total_samples |-> Len(preds),
                           exact_matches |-> ExactFrom(preds, gts, 1),
                           partial_matches |-> 0,
                           predictions |-> preds,
                           ground_truths |-> gts]
  /\ UNCHANGED <<text, engine, generator, entry, single, images, i_idx, preds,
                 gts, details, read>>

\* run_batch is left; the next call starts from a fresh frame
BatchReturn ==
  /\ b_pc \in {"done", "raised"}
  /\ entry' = "none"
  /\ b_pc' = "idle"
  /\ images' = <<>>
  /\ i_idx' = 0
  /\ preds' = <<>>
  /\ gts' = <<>>
  /\ details' = <<>>
  /\ read' = <<>>
  /\ summary' = None
  /\ UNCHANGED <<text, engine, generator, single>>

BatchNext ==
  \/ CallRunBatch
  \/ NextImage
  \/ GetCandidateRois
  \/ OcrRois
  \/ ExtractBest
  \/ ExtractText
  \/ ExtractDone
  \/ ScoreCandidate
  \/ ChooseAndReturn
  \/ ReturnPrediction
  \/ AppendResult
  \/ Summarize
  \/ BatchReturn

BatchSpec == Init /\ [][BatchNext]_vars

\* ------------------------------------------------------------- the claims

\* choose_best has returned: all_cands, score_map and gt hold its arguments
Chosen == pc = "done" /\ refined

\* extract_best_from_texts has returned
Extracted == pc = "done" /\ op = "extract_best_from_texts"

\* the smallest edit distance between a candidate and the reference
MinDistance(cands, ref) ==
  Least({_levenshtein(c, ref) : c \in Range(cands)})

\* c is a candidate of the largest score, and the first such in the list
IsFirstMax(c, cands, map) ==
  \E n \in DOMAIN cands :
    /\ cands[n] = c
    /\ \A m \in DOMAIN cands : ScoreGet(map, cands[m]) <= ScoreGet(map, c)
    /\ \A m \in 1..(n - 1) : ScoreGet(map, cands[m]) < ScoreGet(map, c)

\* the image has no reference: no name, a name not in the map, or a name
\* mapped to the empty string
NoReference(name) ==
  \/ name = None
  \/ name \notin DOMAIN gt_map
  \/ gt_map[name] = <<>>

\* C1: when choose_best is given a non-empty candidate list and a reference
\* text, and the smallest edit distance between a candidate and the reference
\* is at most max_snap, it returns the reference itself, whatever the scores.
C1_SnapToReference ==
  (/\ Chosen
   /\ all_cands # <<>>
   /\ Truthy(gt)
   /\ MinDistance(all_cands, gt) <= max_snap)
    => best = gt

\* C1 witness: a snap to a reference that is not among the candidates and whose
\* closest candidate is not the one of the highest score.
C1_Witness ==
  /\ Chosen
  /\ all_cands # <<>>
  /\ Truthy(gt)
  /\ MinDistance(all_cands, gt) \in 1..max_snap
  /\ best = gt
  /\ gt \notin Range(all_cands)
  /\ \E c \in Range(all_cands) :
       /\ _levenshtein(c, gt) > max_snap
       /\ IsFirstMax(c, all_cands, score_map)

\* C2: with max_snap = 3, a closest candidate at edit distance exactly 3 makes
\* choose_best return the reference; a closest candidate at distance 4 or more
\* makes it return the candidate of the highest score instead.
C2_SnapBoundary ==
  (/\ Chosen
   /\ all_cands # <<>>
   /\ Truthy(gt)
   /\ max_snap = 3)
    => /\ MinDistance(all_cands, gt) = 3 => best = gt
       /\ MinDistance(all_cands, gt) >= 4 =>
            /\ best # gt
            /\ IsFirstMax(best, all_cands, score_map)

\* C2 witness: the text stage with the closest candidate at distance exactly 4:
\* no snap, the highest score wins.
C2_Witness ==
  /\ Extracted
  /\ refined
  /\ Truthy(gt)
  /\ max_snap = 3
  /\ MinDistance(all_cands, gt) = 4
  /\ best \in Range(all_cands)

\* the other side of the boundary: the text stage with the closest candidate at
\* distance exactly 3, snapped
C2_ReachedAtThree ==
  /\ Extracted
  /\ refined
  /\ Truthy(gt)
  /\ max_snap = 3
  /\ MinDistance(all_cands, gt) = 3
  /\ best = gt

\* C3: with no reference for the image, or with no candidate within snap
\* distance, the result is a candidate of the largest score among the
\* candidates, and of those the one that occurs first in the list.
C3_ScoreFallback ==
  /\ (/\ Chosen
      /\ all_cands # <<>>
      /\ \/ ~Truthy(gt)
         \/ MinDistance(all_cands, gt) > max_snap)
       => IsFirstMax(best, all_cands, score_map)
  /\ (/\ Extracted
      /\ refined
      /\ NoReference(image_name))
       => IsFirstMax(best, all_cands, score_map)

\* C3 witness: an image mapped to the empty string, several candidates.
C3_Witness ==
  /\ Extracted
  /\ refined
  /\ image_name \in DOMAIN gt_map
  /\ gt_map[image_name] = <<>>
  /\ Cardinality(Range(all_cands)) > 1
  /\ IsFirstMax(best, all_cands, score_map)

\* a tie at the largest score between two candidates: the first is returned
C3_ReachedTie ==
  /\ Extracted
  /\ refined
  /\ \E c \in Range(all_cands) :
       c # best /\ ScoreGet(score_map, c) = ScoreGet(score_map, best)
  /\ IsFirstMax(best, all_cands, score_map)

\* C4 as claimed: a result of extract_best_from_texts that is not None is one
\* of the candidates extracted from the recognized text.
C4_NeverFabricates ==
  (Extracted /\ best # None) => best \in Range(all_cands)

\* C4 as amended: a result of extract_best_from_texts that is not None is one
\* of the candidates extracted from the recognized text, or it is the image's
\* reference text and some candidate is within max_snap edits of it.
C4_CandidateOrSnappedReference ==
  (Extracted /\ best # None) =>
    \/ best \in Range(all_cands)
    \/ /\ ~NoReference(image_name)
       /\ best = gt_map[image_name]
       /\ MinDistance(all_cands, best) <= max_snap

\* C4 witness: the result is the reference, which no rule extracted.
C4_Witness ==
  /\ Extracted
  /\ best # None
  /\ best \notin Range(all_cands)
  /\ best = gt_map[image_name]

\* t[n..m] is made of characters of cls only
AllIn(t, n, m, cls) ==
  /\ n >= 1
  /\ m <= Len(t)
  /\ \A i \in n..m : t[i] \in cls

\* t holds a run of k consecutive digits
HasDigitRun(t, k) == \E n \in 1..(Len(t) - k + 1) : AllIn(t, n, n + k - 1, Digits)

\* the reference label with the last digit of its run misread as a letter
MisreadReference == [Reference EXCEPT ![18] = "X"]

\* C5 as claimed: from the pool holding only the reference with one digit of its
\* run misread as a letter, for the image of that reference, a candidate at edit
\* distance 1 from the reference is extracted and extract_best_from_texts
\* returns the reference exactly.
C5_MisreadDigitSnaps ==
  (/\ Extracted
   /\ texts = <<MisreadReference>>
   /\ image_name = ImgA)
    => /\ \E c \in Range(all_cands) : _levenshtein(c, Reference) = 1
       /\ best = Reference

\* C5 witness: from that pool the rules extract the 17 digits before the
\* misread character and nothing else; it is 7 edits from the reference and is
\* what extract_best_from_texts returns.
C5_Witness ==
  /\ Extracted
  /\ texts = <<MisreadReference>>
  /\ image_name = ImgA
  /\ gt = Reference
  /\ Range(all_cands) = {SubSeq(Reference, 1, 17)}
  /\ MinDistance(all_cands, Reference) = 7
  /\ best = SubSeq(Reference, 1, 17)

\* 18 digits, _1_ and 3 letters stand in t from index n on
CodeAt(t, n) ==
  /\ AllIn(t, n, n + 17, Digits)
  /\ n + 23 <= Len(t)
  /\ <<t[n + 18], t[n + 19], t[n + 20]>> = <<"_", "1", "_">>
  /\ AllIn(t, n + 21, n + 23, Letters)

\* the codes of that shape t contains, their letters lower-cased
CodesOf(t) ==
  {[i \in 1..24 |-> LowerChar(t[n + i - 1])] : n \in {m \in 1..Len(t) : CodeAt(t, m)}}

\* C6: when every text of the pool contains the same code of 18 digits, _1_
\* and 3 letters, in any letter case and after any other words, and the image
\* has no reference, extract_best_from_texts returns that code with its digits
\* unchanged and its letters lower-cased.
C6_CodeWithoutReference ==
  (/\ Extracted
   /\ texts # <<>>
   /\ NoReference(image_name))
    => \A code \in CodesOf(texts[1]) :
         (\A n \in DOMAIN texts : code \in CodesOf(texts[n])) => best = code

\* C6 witness: two readings of one code, one after other words and in upper
\* case, return the lower-cased code.
C6_Witness ==
  /\ Extracted
  /\ NoReference(image_name)
  /\ Len(texts) = 2
  /\ texts[1] # texts[2]
  /\ \E code \in CodesOf(texts[1]) :
       /\ code \in CodesOf(texts[2])
       /\ code \notin {texts[1], texts[2]}
       /\ ~CodeAt(texts[1], 1)
       /\ best = code

\* C7 as claimed: when no text of the pool holds a run of 15 or more
\* consecutive digits, extract_best_from_texts returns None.
C7_NoRawRunNoResult ==
  (/\ Extracted
   /\ \A n \in DOMAIN texts : ~HasDigitRun(texts[n], 15))
    => best = None

\* t without its whitespace
Squeeze(t) == SelectSeq(t, LAMBDA c : c \notin Whitespace)

\* C7 as amended: when no text of the pool holds a run of 15 or more digits
\* even with the whitespace taken out of it, extract_best_from_texts returns
\* None.
C7_NoJoinedRunNoResult ==
  (/\ Extracted
   /\ \A n \in DOMAIN texts : ~HasDigitRun(Squeeze(texts[n]), 15))
    => best = None

\* C7 witness: 14 digits with blanks among them, too few even when joined:
\* the result is None.
C7_Witness ==
  /\ Extracted
  /\ Len(texts) = 1
  /\ Squeeze(texts[1]) # texts[1]
  /\ HasDigitRun(Squeeze(texts[1]), 14)
  /\ ~HasDigitRun(Squeeze(texts[1]), 15)
  /\ best = None

\* no rule matches any of the texts
NoRuleMatches(ts) ==
  \A n \in DOMAIN ts : \A pat \in 1..5 : FindIter(pat, _clean_text(ts[n]), 1) = <<>>

\* C8: when no rule matches any text of the pool, the empty pool included,
\* extract_best_from_texts returns None, without scoring and without calling
\* choose_best, and does not raise; and choose_best called with an empty
\* candidate list returns None even when it is given a reference.
C8_EmptyIsNone ==
  /\ (/\ op = "extract_best_from_texts"
      /\ pc \in {"done", "raised"}
      /\ NoRuleMatches(texts))
       => /\ pc = "done"
          /\ best = None
          /\ ~refined
          /\ score_map = EmptyMap
  /\ (/\ op = "choose_best"
      /\ pc = "done"
      /\ all_cands = <<>>)
       => best = None

\* C8 witness: choose_best with no candidates and a reference returns None.
C8_Witness ==
  /\ op = "choose_best"
  /\ pc = "done"
  /\ all_cands = <<>>
  /\ Truthy(gt)
  /\ best = None

\* the text stage's side: a pool of one text that no rule matches, for an image
\* that has a reference
C8_ReachedNoMatch ==
  /\ Extracted
  /\ texts # <<>>
  /\ image_name = ImgA
  /\ NoRuleMatches(texts)
  /\ best = None
  /\ ~refined

\* C9: when one text of the pool is a code of 18 digits, _1_ and 3 letters and
\* another is a bare run of 16 digits, the score of the code is strictly above
\* the score of the bare run, and with no reference the result is the code,
\* whichever of the two comes first.
C9_CanonicalShapeWins ==
  (/\ Extracted
   /\ NoReference(image_name))
    => \A i, j \in DOMAIN texts :
         (/\ Len(texts[i]) = 24
          /\ CodeAt(texts[i], 1)
          /\ Len(texts[j]) = 16
          /\ AllIn(texts[j], 1, 16, Digits))
           => /\ ScoreGet(score_map, LowerStr(texts[i])) > ScoreGet(score_map, texts[j])
              /\ ScoreGet(score_map, texts[j]) > 0
              /\ best = LowerStr(texts[i])

\* C9 witness: the bare run of 16 digits comes first in the pool and the code
\* is returned.
C9_Witness ==
  /\ Extracted
  /\ NoReference(image_name)
  /\ Len(texts) = 2
  /\ Len(texts[1]) = 16
  /\ AllIn(texts[1], 1, 16, Digits)
  /\ Len(texts[2]) = 24
  /\ CodeAt(texts[2], 1)
  /\ all_cands[1] = texts[1]
  /\ best = LowerStr(texts[2])

\* the other order: the code comes first
C9_ReachedCodeFirst ==
  /\ Extracted
  /\ NoReference(image_name)
  /\ Len(texts) = 2
  /\ Len(texts[2]) = 16
  /\ AllIn(texts[2], 1, 16, Digits)
  /\ Len(texts[1]) = 24
  /\ CodeAt(texts[1], 1)
  /\ best = LowerStr(texts[1])

\* c is k digits, _1_ and letters
SuffixShaped(c, k) ==
  /\ k + 3 <= Len(c)
  /\ AllIn(c, 1, k, Digits)
  /\ <<c[k + 1], c[k + 2], c[k + 3]>> = <<"_", "1", "_">>
  /\ AllIn(c, k + 4, Len(c), Letters)

\* the score of k digits, _1_ and m letters
SuffixShapedScore(k, m) ==
  20 + (IF k = 18 THEN 100 ELSE IF k >= 16 THEN 80 ELSE 0)
     + (IF m = 3 THEN 50 ELSE 0)

\* C10: for every candidate made of digits, _1_ and a suffix, _score returns
\* 20, plus 100 if the digits are exactly 18, or else plus 80 if they are 16 or
\* more, plus 50 if the suffix has exactly 3 letters: one of 20, 70, 100, 120,
\* 150 and 170.
C10_SuffixShapedScore ==
  /\ (op = "_score" /\ pc = "done") =>
       \A k \in 0..Len(p) :
         SuffixShaped(p, k) =>
           /\ sc = SuffixShapedScore(k, Len(p) - k - 3)
           /\ sc \in {20, 70, 100, 120, 150, 170}
  /\ (Extracted /\ refined) =>
       \A c \in DOMAIN score_map : \A k \in 0..Len(c) :
         SuffixShaped(c, k) => score_map[c] = SuffixShapedScore(k, Len(c) - k - 3)

\* C10 witness: more than 18 digits and 3 letters score 150.
C10_Witness ==
  /\ op = "_score"
  /\ pc = "done"
  /\ \E k \in 19..Len(p) : SuffixShaped(p, k) /\ Len(p) = k + 6
  /\ sc = 150

\* C11 as claimed: for every candidate made of digits and _1, _score returns
\* 60 if the digits are 15 or more and 0 otherwise; for every candidate made of
\* digits alone, _score returns 20 if they are 15 or more and 0 otherwise.
C11_SuffixlessScore ==
  (op = "_score" /\ pc = "done") =>
    /\ (/\ Len(p) >= 2
        /\ AllIn(p, 1, Len(p) - 2, Digits)
        /\ <<p[Len(p) - 1], p[Len(p)]>> = <<"_", "1">>)
         => sc = (IF Len(p) - 2 >= 15 THEN 60 ELSE 0)
    /\ AllIn(p, 1, Len(p), Digits)
         => sc = (IF Len(p) >= 15 THEN 20 ELSE 0)

\* C11 witness: 14 digits and _1 are 16 characters, which the last line of
\* _score takes for a bare run of 15 or more: the score is 20.
C11_Witness ==
  /\ op = "_score"
  /\ pc = "done"
  /\ Len(p) = 16
  /\ AllIn(p, 1, 14, Digits)
  /\ <<p[15], p[16]>> = <<"_", "1">>
  /\ sc = 20

\* the greatest element of a non-empty set of integers
Greatest(S) == CHOOSE x \in S : \A y \in S : x >= y

\* the scores of the occurrences of c among the first n candidates
OccurrenceScores(c, n) ==
  {_score(all_cands[m]) : m \in {k \in 1..n : all_cands[k] = c}}

\* score_map holds, for exactly the candidates among the first n, the greatest
\* score of their occurrences
FoldedUpTo(n) ==
  /\ DOMAIN score_map = {all_cands[m] : m \in 1..n}
  /\ \A c \in DOMAIN score_map : score_map[c] = Greatest(OccurrenceScores(c, n))

\* C12: while extract_best_from_texts folds the candidates into score_map, no
\* entry is dropped or lowered by a step, the entries are the greatest scores
\* of the occurrences folded so far, and at the end the keys are exactly the
\* distinct candidates, each with the greatest score of all its occurrences.
C12_ScoreMapIsMax ==
  /\ []((op = "extract_best_from_texts" /\ pc = "score") => FoldedUpTo(c_idx - 1))
  /\ []((Extracted /\ refined) => FoldedUpTo(Len(all_cands)))
  /\ [][(op = "extract_best_from_texts" /\ pc = "score") =>
          \A c \in DOMAIN score_map :
            /\ c \in DOMAIN score_map'
            /\ score_map'[c] >= score_map[c]]_vars

\* C12 witness: a candidate that occurs three times among others has the score
\* of one occurrence, not their sum.
C12_Witness ==
  /\ Extracted
  /\ refined
  /\ \E c \in DOMAIN score_map :
       /\ Cardinality({n \in DOMAIN all_cands : all_cands[n] = c}) = 3
       /\ score_map[c] = _score(c)
       /\ score_map[c] > 0
  /\ Cardinality(DOMAIN score_map) > 1
  /\ Cardinality(DOMAIN score_map) < Len(all_cands)

\* C13: _norm leaves every candidate that _extract_from_text produces as it
\* is: normalizing a normalized candidate yields the same string.
C13_NormIdempotent ==
  (op = "extract_best_from_texts" /\ pc = "extract") =>
    \A n \in DOMAIN all_cands : _norm(all_cands[n]) = all_cands[n]

\* C13 witness: a candidate with a suffix that _norm had to lower-case, so that
\* it is not a part of the text it came from, is left as it is by _norm.
C13_Witness ==
  /\ op = "extract_best_from_texts"
  /\ pc = "extract"
  /\ Len(texts) = 1
  /\ t_idx = 2
  /\ \E n \in DOMAIN all_cands :
       /\ all_cands[n][Len(all_cands[n])] \in Lowers
       /\ ~Contains(texts[1], all_cands[n])
       /\ _norm(all_cands[n]) = all_cands[n]

\* c is k digits, _1_ and one or more lower-case letters
DigitsSepLetters(c, k) ==
  /\ k + 4 <= Len(c)
  /\ AllIn(c, 1, k, Digits)
  /\ <<c[k + 1], c[k + 2], c[k + 3]>> = <<"_", "1", "_">>
  /\ AllIn(c, k + 4, Len(c), Lowers)

\* c is digits and _1
DigitsSep(c) ==
  /\ Len(c) >= 2
  /\ AllIn(c, 1, Len(c) - 2, Digits)
  /\ <<c[Len(c) - 1], c[Len(c)]>> = <<"_", "1">>

\* c has one of the three forms of a candidate
CanonicalShape(c) ==
  \/ \E k \in 0..Len(c) : DigitsSepLetters(c, k)
  \/ DigitsSep(c)
  \/ AllIn(c, 1, Len(c), Digits)

\* C14 as claimed: every candidate that _extract_from_text produces is digits,
\* _1_ and one or more lower-case letters, or digits and _1, or digits alone;
\* none ends with _1_ and an empty suffix.
C14_CanonicalShapes ==
  (op = "extract_best_from_texts" /\ pc = "extract") =>
    \A n \in DOMAIN all_cands : CanonicalShape(all_cands[n])

\* C14 witness: from a text that ends in _1_ the third rule, which takes 0 to 3
\* letters, yields a candidate that ends in _1_ with an empty suffix.
C14_Witness ==
  /\ op = "extract_best_from_texts"
  /\ pc = "extract"
  /\ Len(texts) = 1
  /\ t_idx = 2
  /\ \E n \in DOMAIN all_cands :
       /\ SuffixShaped(all_cands[n], Len(all_cands[n]) - 3)
       /\ all_cands[n] = texts[1]

\* the length of the run of characters of cls that ends just before index n
RunBefore(t, n, cls) ==
  Greatest({k \in 0..(n - 1) : AllIn(t, n - k, n - 1, cls)})

\* the length of the run of characters of cls that starts at index n
RunFrom(t, n, cls) ==
  Greatest({k \in 0..(Len(t) - n + 1) : AllIn(t, n, n + k - 1, cls)})

\* in t, some _1_ stands right after a run of exactly 18 digits and right
\* before a run of exactly 3 letters
ExactCodeIn(t) ==
  \E n \in 1..Len(t) :
    /\ OccursAt(t, <<"_", "1", "_">>, n)
    /\ RunBefore(t, n, Digits) = 18
    /\ RunFrom(t, n + 3, Letters) = 3

\* C15 as claimed: a candidate of 18 digits, _1_ and 3 letters comes only from
\* a cleaned text in which the digit run right before _1_ is exactly 18 long
\* and the letter run right after it exactly 3 long: 19 or 20 digits before
\* _1_, or 4 or more letters after it, yield no such candidate.
C15_RuleOneExact ==
  (/\ op = "extract_best_from_texts"
   /\ pc = "extract"
   /\ Len(texts) = 1
   /\ t_idx = 2)
    => \A n \in DOMAIN all_cands :
         (Len(all_cands[n]) = 24 /\ SuffixShaped(all_cands[n], 18))
           => ExactCodeIn(_clean_text(texts[1]))

\* C15 witness: from 20 digits, _1_ and 3 letters the first rule takes the last
\* 18 digits, and the candidate of 18 digits, _1_ and 3 letters comes first.
C15_Witness ==
  /\ op = "extract_best_from_texts"
  /\ pc = "extract"
  /\ Len(texts) = 1
  /\ t_idx = 2
  /\ Len(texts[1]) = 26
  /\ SuffixShaped(texts[1], 20)
  /\ all_cands # <<>>
  /\ all_cands[1] = LowerStr(SubSeq(texts[1], 3, 26))

\* the same with a letter too many: 18 digits, _1_ and 4 letters yield the
\* candidate with the first 3
C15_ReachedFourLetters ==
  /\ op = "extract_best_from_texts"
  /\ pc = "extract"
  /\ Len(texts) = 1
  /\ t_idx = 2
  /\ Len(texts[1]) = 25
  /\ SuffixShaped(texts[1], 18)
  /\ all_cands # <<>>
  /\ all_cands[1] = LowerStr(SubSeq(texts[1], 1, 24))

\* the whitespace at index i of t is in a blank run that touches an underscore
\* or that has a digit on both sides
Stray(t, i) ==
  /\ t[i] \in Whitespace
  /\ LET l == i - RunBefore(t, i, Whitespace) - 1
         r == i + RunFrom(t, i, Whitespace)
     IN  \/ l >= 1 /\ t[l] = "_"
         \/ r <= Len(t) /\ t[r] = "_"
         \/ l >= 1 /\ r <= Len(t) /\ t[l] \in Digits /\ t[r] \in Digits

\* t without its stray whitespace: two strings differ only by stray whitespace
\* when this leaves the same string of both
Unstrayed(t) ==
  LET keep == {i \in 1..Len(t) : ~Stray(t, i)}
  IN  [n \in 1..Cardinality(keep) |->
         t[CHOOSE i \in keep : Cardinality({j \in keep : j <= i}) = n]]

\* C16: a raw string and the same string without the whitespace that is next
\* to an underscore or between two digits give the same cleaned string and the
\* same list of candidates.
C16_CleaningEquivalence ==
  (/\ op = "extract_best_from_texts"
   /\ pc = "extract"
   /\ Len(texts) = 1
   /\ t_idx = 2)
    => /\ _clean_text(Unstrayed(texts[1])) = _clean_text(texts[1])
       /\ _extract_from_text(Unstrayed(texts[1])) = all_cands

\* C16 witness: a text with blanks, tabs or line breaks inside its digit run,
\* which is 15 digits or more only without them, gives the candidates of the
\* text without them.
C16_Witness ==
  /\ op = "extract_best_from_texts"
  /\ pc = "extract"
  /\ Len(texts) = 1
  /\ t_idx = 2
  /\ \E i \in 2..(Len(texts[1]) - 1) :
       /\ Stray(texts[1], i)
       /\ texts[1][i] # " "
       /\ texts[1][i - 1] \in Digits
  /\ ~HasDigitRun(texts[1], 15)
  /\ all_cands # <<>>
  /\ _extract_from_text(Unstrayed(texts[1])) = all_cands

\* the other kind: a text with blanks around the underscores of its separator
\* gives the candidates of the text with the plain separator
C16_ReachedSpacedSeparator ==
  /\ op = "extract_best_from_texts"
  /\ pc = "extract"
  /\ Len(texts) = 1
  /\ t_idx = 2
  /\ Contains(texts[1], <<" ", "_", " ", "1", " ", "_", " ">>)
  /\ Contains(Unstrayed(texts[1]), <<"_", "1", "_">>)
  /\ ~Contains(Unstrayed(texts[1]), <<" ">>)
  /\ Len(all_cands) >= 3
  /\ _extract_from_text(Unstrayed(texts[1])) = all_cands

\* the candidates of the matches of rule number pat in the cleaned text t
RuleCandidates(t, pat) == NormAll(FindIter(pat, _clean_text(t), 1))

\* C17: _extract_from_text tries all five rules in their order on every text
\* and appends a candidate for every match of every rule, duplicates included;
\* a text that is exactly 18 digits, _1_ and 3 letters yields five candidates:
\* the code three times, then its digits and _1, then its digits alone.
C17_AllRulesTried ==
  (/\ op = "extract_best_from_texts"
   /\ pc = "extract"
   /\ Len(texts) = 1
   /\ t_idx = 2)
    => /\ all_cands = RuleCandidates(texts[1], 1) \o RuleCandidates(texts[1], 2)
                        \o RuleCandidates(texts[1], 3) \o RuleCandidates(texts[1], 4)
                        \o RuleCandidates(texts[1], 5)
       /\ (Len(texts[1]) = 24 /\ CodeAt(texts[1], 1)) =>
            all_cands = <<LowerStr(texts[1]), LowerStr(texts[1]), LowerStr(texts[1]),
                          SubSeq(texts[1], 1, 20), SubSeq(texts[1], 1, 18)>>

\* C17 witness: the five candidates of a text that is exactly a code with its
\* letters in upper case.
C17_Witness ==
  /\ op = "extract_best_from_texts"
  /\ pc = "extract"
  /\ Len(texts) = 1
  /\ t_idx = 2
  /\ Len(texts[1]) = 24
  /\ CodeAt(texts[1], 1)
  /\ texts[1][24] \in Uppers
  /\ Len(all_cands) = 5
  /\ all_cands[1] = all_cands[3]
  /\ all_cands[5] = SubSeq(texts[1], 1, 18)

\* ocr_rois has returned
Pooled == o_pc = "done"

\* the index of the first string of out that is t once stripped
FirstSeen(t) == Least({n \in DOMAIN out : Strip(out[n]) = t})

\* C18: the list ocr_rois returns holds no empty string, no string that begins
\* or ends with whitespace and no string twice; it holds every non-empty
\* stripped string the providers returned, in the order in which they first
\* came: a string that comes from several calls is one entry.
C18_PoolDeduplicated ==
  Pooled =>
    /\ \A n \in DOMAIN final :
         /\ final[n] # <<>>
         /\ final[n][1] \notin Whitespace
         /\ final[n][Len(final[n])] \notin Whitespace
    /\ \A i, j \in DOMAIN final : i # j => final[i] # final[j]
    /\ Range(final) = {Strip(out[n]) : n \in DOMAIN out} \ {<<>>}
    /\ \A i, j \in DOMAIN final : i < j => FirstSeen(final[i]) < FirstSeen(final[j])

\* C18 witness: a string that Tesseract read and that is also the join of what
\* EasyOCR read is one entry of the pool, among others.
C18_Witness ==
  /\ Pooled
  /\ \E i, j \in DOMAIN returns : \E t \in Range(returns[i][3]) :
       /\ returns[i][1] = "_ocr_tess"
       /\ returns[j][1] = "_ocr_easy"
       /\ t \in Range(returns[j][3])
       /\ Cardinality({n \in DOMAIN final : final[n] = t}) = 1
       /\ Cardinality({n \in DOMAIN out : out[n] = t}) > 2
  /\ Len(final) > 2

\* C19 as claimed: in ocr_rois Tesseract and, when it is on, EasyOCR are
\* invoked on every variant of every region.
C19_EveryProviderEveryVariant ==
  Pooled =>
    \A r \in DOMAIN rois : \A v \in 1..variants[r] :
      /\ <<"tesseract", r, v>> \in calls
      /\ use_easyocr => <<"easyocr", r, v>> \in calls

\* C19 witness: with EasyOCR on and two variants of a grayscale region,
\* Tesseract has read both and EasyOCR only the region itself, the first.
C19_Witness ==
  /\ Pooled
  /\ use_easyocr
  /\ rois = <<"gray">>
  /\ variants = <<2>>
  /\ calls = {<<"tesseract", 1, 1>>, <<"tesseract", 1, 2>>, <<"easyocr", 1, 1>>}

\* C20 as claimed: whenever a call of _ocr_tess or of _ocr_easy has two or more
\* text fragments, their join with single spaces, in order, is in the pool
\* (as the pool holds it: stripped, and not if that leaves nothing).
C20_JoinOfEveryCall ==
  Pooled =>
    \A n \in DOMAIN returns :
      Len(returns[n][2]) >= 2 =>
        \/ Strip(Join(returns[n][2])) \in Range(final)
        \/ Strip(Join(returns[n][2])) = <<>>

\* C20 witness: one call of _ocr_tess returned three texts, EasyOCR is off, and
\* the join of the three is not in the pool, which holds only the texts.
C20_Witness ==
  /\ Pooled
  /\ ~use_easyocr
  /\ Len(returns) = 2
  /\ returns[1][1] = "_ocr_tess"
  /\ Len(returns[1][3]) = 3
  /\ Strip(Join(returns[1][3])) \notin Range(final)
  /\ Range(final) = Range(returns[1][3])

\* the part of C20 that the code does: whenever a call of _ocr_easy has one or
\* more text fragments, it returns them followed by their join with single
\* spaces, and the join, stripped, is in the pool unless that leaves nothing
JoinOfEasyCall ==
  Pooled =>
    \A n \in DOMAIN returns :
      (returns[n][1] = "_ocr_easy" /\ returns[n][2] # <<>>) =>
        /\ returns[n][3] = Append(returns[n][2], Join(returns[n][2]))
        /\ \/ Strip(Join(returns[n][2])) \in Range(final)
           \/ Strip(Join(returns[n][2])) = <<>>

\* the strings of a sequence of provider outputs that count: those that are
\* not an exception and are not blank, stripped
Contributed(reads) ==
  LET good == SelectSeq(reads, LAMBDA t : t # Raised /\ Strip(t) # <<>>)
  IN  [n \in DOMAIN good |-> Strip(good[n])]

\* C21: a Tesseract configuration that raises, and EasyOCR raising or not being
\* initialised, contribute no string and stop nothing: ocr_rois still returns,
\* Tesseract has run on every variant of every region, every call has returned,
\* every other configuration's text is in what its call returned, and all of
\* it is in the pool.
C21_FailureIsolated ==
  Pooled =>
    /\ \A r \in DOMAIN rois : \A v \in 1..variants[r] : <<"tesseract", r, v>> \in calls
    /\ Cardinality({n \in DOMAIN returns : returns[n][1] = "_ocr_easy"}) = Len(rois)
    /\ \A n \in DOMAIN returns :
         /\ returns[n][1] = "_ocr_tess" => returns[n][3] = Contributed(returns[n][4])
         /\ (returns[n][1] = "_ocr_easy" /\ returns[n][4] = Raised) => returns[n][3] = <<>>
         /\ \A t \in Range(returns[n][3]) : Strip(t) # <<>> => Strip(t) \in Range(final)

\* C21 witness: in one region Tesseract's first and third configurations and
\* EasyOCR raised; the second configuration's text is the pool.
C21_Witness ==
  /\ Pooled
  /\ use_easyocr
  /\ rois = <<"gray">>
  /\ Len(returns) = 2
  /\ returns[1][4][1] = Raised
  /\ returns[1][4][3] = Raised
  /\ returns[2][4] = Raised
  /\ final = <<Strip(returns[1][4][2])>>

\* cv2 call c was made and did not raise
Succeeded(c) == c \in attempted /\ c \notin failing

\* C22: _generate_variants returns the region first and then, in the fixed
\* order, the outputs of exactly the cv2 calls that succeeded; every try block
\* is entered whatever raised before it (only an inverse depends on its own
\* adaptive threshold), so 1 to 9 variants are returned.
C22_TransformIsolation ==
  o_pc = "generated" =>
    /\ cleaned[1] = "gray"
    /\ cleaned = <<"gray">> \o SelectSeq(TransformCalls, Succeeded)
    /\ \A b \in DOMAIN Transforms : Transforms[b][1] \in attempted
    /\ \A c \in Range(TransformCalls) :
         c \notin attempted => /\ c \in {"inverse31", "inverse41"}
                               /\ c = "inverse31" => "adaptive31" \in failing
                               /\ c = "inverse41" => "adaptive41" \in failing
    /\ Len(cleaned) \in 1..(Len(TransformCalls) + 1)

\* C22 witness: CLAHE and the adaptive threshold of size 31 raised; the later
\* transforms ran and their outputs follow the region.
C22_Witness ==
  /\ o_pc = "generated"
  /\ failing = {"clahe", "adaptive31"}
  /\ cleaned = <<"gray", "otsu", "adaptive41", "inverse41", "sharpen", "close">>

\* all nine variants are returned when nothing raises
C22_ReachedAllNine == o_pc = "generated" /\ failing = {} /\ Len(cleaned) = 9

\* get_candidate_rois has returned the regions of an image that loaded
Cropped == s_pc \in {"ocr", "returned"} /\ img.size # None

\* C23: for every image that loads, whatever its height and width,
\* get_candidate_rois returns exactly six regions: the frame, rows 30% to 60%,
\* rows from 60%, columns from 45%, the bottom-right block and the central block.
C23_SixRegions ==
  Cropped =>
    /\ Len(regions) = 6
    /\ regions = Crops(_resize(img.size)[1], _resize(img.size)[2])

\* C23 witness: an image one row high has loaded; the band of rows 30% to 60%
\* and the central block are empty and only four regions are returned.
C23_Witness ==
  /\ Cropped
  /\ img.size = <<1, MaxSide>>
  /\ Len(regions) = 4

\* what the code does instead: six regions exactly when the frame has two rows
\* and two columns or more, and always the crops that are not empty, in order
C23_NonEmptyCrops ==
  Cropped =>
    /\ regions = SelectSeq(Crops(_resize(img.size)[1], _resize(img.size)[2]),
                           LAMBDA r : r[1] < r[2] /\ r[3] < r[4])
    /\ Len(regions) = 6 <=> (_resize(img.size)[1] >= 2 /\ _resize(img.size)[2] >= 2)

\* the number of pieces "_1_" cuts c into, less one
Occurrences(c) == Len(Split(c, Sep)) - 1

\* a call of extract_best_from_texts is inside one of its loops
Running == op = "extract_best_from_texts" /\ pc \in {"extract", "score"}

\* the loops still ahead of the call, and the rounds left of the one it is in
LoopsLeft == IF pc = "extract" THEN 2 ELSE IF pc = "score" THEN 1 ELSE 0

RoundsLeft ==
  IF pc = "extract" THEN Len(texts) + 1 - t_idx
  ELSE IF pc = "score" THEN Len(all_cands) + 1 - c_idx
  ELSE 0

\* C24: extract_best_from_texts never raises and returns None or a non-empty
\* string: no candidate holds "_1_" twice, so neither _norm nor _score fails to
\* unpack the split, and choose_best sets best_dist before it compares it. The
\* call terminates: the rounds left of a loop are never negative, and every
\* step ends a round of the loop or the loop itself.
C24_Total ==
  /\ [](/\ pc # "raised"
        /\ \A n \in DOMAIN all_cands :
             op = "extract_best_from_texts" =>
               /\ all_cands[n] # ValueError
               /\ all_cands[n] # <<>>
               /\ Occurrences(all_cands[n]) <= 1
        /\ Extracted => (best = None \/ (best # <<>> /\ best # ValueError))
        /\ (Extracted /\ refined /\ Truthy(gt)) =>
             BestDist(Unique(all_cands), gt, 1, NoDist) # NoDist
        /\ Running => RoundsLeft >= 0)
  /\ [][Running =>
          \/ LoopsLeft' < LoopsLeft
          \/ LoopsLeft' = LoopsLeft /\ RoundsLeft' < RoundsLeft]_vars

\* C24 witness: from a text in which the separator is read twice in a row, the
\* candidate with one separator and no suffix is extracted and the call returns.
C24_Witness ==
  /\ Extracted
  /\ texts = <<Run(CanonRun) \o Sep \o Sep>>
  /\ Run(CanonRun) \o Sep \in Range(all_cands)
  /\ best # None

\* process_single or run_inference has returned
Returned == s_pc = "returned"

\* C25: for an image that cannot be loaded get_candidate_rois returns no region
\* and the entry point returns "" without calling ocr_rois or the extractor;
\* in general it returns "" exactly when there was no region or the extractor
\* returned None, and otherwise the extractor's non-empty string.
C25_UnloadableIsEmpty ==
  /\ (s_pc \in {"ocr", "texts", "extract"} /\ img.size = None) => FALSE
  /\ Returned =>
       /\ img.size = None => (regions = <<>> /\ pred = <<>> /\ invoked = {})
       /\ regions = <<>> => invoked = {}
       /\ regions # <<>> => invoked = {"ocr_rois", "extract_best_from_texts"}
       /\ pred = <<>> <=> (regions = <<>> \/ prediction = None)
       /\ pred # <<>> => (pred = prediction /\ pred # None /\ Len(pred) > 0)

\* C25 witness: run_inference has returned "" for an image that could not be
\* loaded, and nothing was called.
C25_Witness ==
  /\ Returned
  /\ entry = "run_inference"
  /\ img.size = None
  /\ pred = <<>>
  /\ invoked = {}

\* both other outcomes: regions but no code in what was read, and a code
C25_ReachedNoCode ==
  Returned /\ regions # <<>> /\ prediction = None /\ pred = <<>>

C25_ReachedCode ==
  Returned /\ entry = "process_single" /\ ocr_texts = <<Smudged>> /\ pred = Reference

\* the candidates of a pool, in order
RECURSIVE CandidatesOf(_)
CandidatesOf(pool) ==
  IF pool = <<>> THEN <<>>
  ELSE _extract_from_text(Head(pool)) \o CandidatesOf(Tail(pool))

\* what extract_best_from_texts makes of a pool, an image name and a
\* ground-truth map, as a function of these alone
ResultOf(pool, name, map, snap) ==
  LET cands == CandidatesOf(pool)
      scores == [c \in Range(cands) |-> _score(c)]
  IN  IF cands = <<>> THEN None
      ELSE choose_best(cands, scores, LookupGt(name, map), snap)

\* what process_single returns for an image and the pool read off it
PredOf(image, pool) ==
  IF get_candidate_rois(image.size) = <<>> THEN <<>>
  ELSE LET r == ResultOf(pool, image.name, GroundTruthMap, DefaultMaxSnap)
       IN  IF Truthy(r) THEN r ELSE <<>>

\* C26: the result for an image is a function of its pool, its name and the
\* ground-truth map: in a batch it is the same wherever the image stands and
\* whatever was processed before it, the same inputs give the same result
\* twice, and no step changes the ground-truth map or the snap distance.
C26_Stateless ==
  /\ [](/\ \A i \in DOMAIN preds : preds[i] = PredOf(images[i], read[i])
        /\ \A i, j \in DOMAIN preds :
             (images[i] = images[j] /\ read[i] = read[j]) => preds[i] = preds[j]
        /\ (s_pc = "extract" /\ pc = "done") =>
             best = ResultOf(ocr_texts, img.name, GroundTruthMap, DefaultMaxSnap))
  /\ [][gt_map' = gt_map /\ max_snap' = max_snap]_vars

\* C26 witness: the same image with the same misread pool twice in one batch,
\* snapped to its label both times.
C26_Witness ==
  /\ b_pc = "done"
  /\ Len(preds) = 2
  /\ images[1] = images[2]
  /\ read = <<<<Smudged>>, <<Smudged>>>>
  /\ preds = <<Reference, Reference>>

\* the image without a label after the one with it, the same pool: the first
\* is snapped, the second is not
C26_ReachedAfterOther ==
  /\ b_pc = "done"
  /\ Len(preds) = 2
  /\ images[1].name = ImgA
  /\ images[2].name = ImgC
  /\ read = <<<<Smudged>>, <<Smudged>>>>
  /\ preds = <<Reference, Smudged>>

\* the pool read in the opposite order of regions and variants
Reversed(pool) == [n \in DOMAIN pool |-> pool[Len(pool) + 1 - n]]

\* what extract_best_from_texts returns for the running call's pool reversed
OtherOrder == ResultOf(Reversed(texts), image_name, gt_map, max_snap)

\* C27 as claimed: extract_best_from_texts selects the same output for a pool
\* and for the same strings in another order, with or without a reference.
C27_OrderInsensitive == Extracted => best = OtherOrder

\* C27 amended: the order of the pool decides nothing but which of the
\* candidates tied at the highest score is returned: both orders yield the same
\* set of candidates, both return None or neither, both snap to the reference
\* or neither, and without a snap both return a candidate of the highest score.
C27_OrderPicksAmongTies ==
  Extracted =>
    \A other \in {OtherOrder} :
      \A snaps \in {/\ Truthy(gt)
                    /\ all_cands # <<>>
                    /\ MinDistance(all_cands, gt) <= max_snap} :
        /\ Range(CandidatesOf(Reversed(texts))) = Range(all_cands)
        /\ best = None <=> other = None
        /\ snaps => (best = gt /\ other = gt)
        /\ (all_cands # <<>> /\ ~snaps) =>
             /\ best \in Range(all_cands)
             /\ other \in Range(all_cands)
             /\ _score(best) = Greatest({_score(c) : c \in Range(all_cands)})
             /\ _score(other) = _score(best)

\* C27 witness: two different codes of the canonical shape in one pool; each
\* order returns the code it reads first, both at the highest score.
C27_Witness ==
  /\ Extracted
  /\ Len(texts) = 2
  /\ best # None
  /\ OtherOrder # best
  /\ _score(OtherOrder) = _score(best)

\* a pool of two texts for which the order changes nothing, with a reference
C27_ReachedSameEitherWay ==
  /\ Extracted
  /\ Len(texts) = 2
  /\ texts[1] # texts[2]
  /\ Truthy(gt)
  /\ best = OtherOrder
  /\ best # gt

\* a is the beginning of b and shorter than b
ProperPrefix(a, b) == Len(a) < Len(b) /\ SubSeq(b, 1, Len(a)) = a

\* C28 as claimed: without a reference the candidate extract_best_from_texts
\* returns is never a proper prefix of another candidate of the list: a
\* candidate digits_1_suffix scores at least as high as the digits_1 and the
\* bare digits of the same match.
C28_NeverTruncates ==
  (Extracted /\ NoReference(image_name) /\ best # None) =>
    /\ \A c \in Range(all_cands) : ~ProperPrefix(best, c)
    /\ \A c, d \in Range(all_cands) :
         (Contains(c, Sep) /\ ProperPrefix(d, c)) => _score(c) >= _score(d)

\* C28 witness: a run of 15 digits, the separator and two letters are read;
\* the candidate with the letters scores 20, the one cut after "_1" scores 60
\* and is returned.
C28_Witness ==
  /\ Extracted
  /\ NoReference(image_name)
  /\ texts = <<Run(MinRun) \o Sep \o Suffix(2)>>
  /\ Run(MinRun) \o Sep \o LowerStr(Suffix(2)) \in Range(all_cands)
  /\ best = Run(MinRun) \o SepShort

\* the strings one insertion, deletion or substitution away from s, none
\* longer than cap
Edits(s, cap) ==
  {SubSeq(s, 1, i - 1) \o SubSeq(s, i + 1, Len(s)) : i \in DOMAIN s}
    \cup {[s EXCEPT ![i] = c] : i \in DOMAIN s, c \in LevAlphabet}
    \cup (IF Len(s) >= cap THEN {}
          ELSE {SubSeq(s, 1, i) \o <<c>> \o SubSeq(s, i + 1, Len(s)) :
                  i \in 0..Len(s), c \in LevAlphabet})

\* the strings at most k edits away from the strings of S
RECURSIVE Within(_, _, _)
Within(S, k, cap) ==
  IF k = 0 THEN S
  ELSE Within(S \cup UNION {Edits(s, cap) : s \in S}, k - 1, cap)

\* the least number of single-character edits that turn a into b
EditDistance(a, b) ==
  LET cap == IF Len(a) > Len(b) THEN Len(a) ELSE Len(b)
  IN  Least({k \in 0..cap : b \in Within({a}, k, cap)})

\* _levenshtein has returned
Measured == pc = "done" /\ op = "_levenshtein"

\* C29: _levenshtein(a, b) is the least number of single-character insertions,
\* deletions and substitutions that turn a into b; it is 0 exactly when a = b,
\* it is symmetric, at least the difference of the lengths and at most the
\* greater length.
C29_EditDistance ==
  Measured =>
    /\ sc = EditDistance(p, gt)
    /\ sc = 0 <=> p = gt
    /\ sc = _levenshtein(gt, p)
    /\ sc >= Len(p) - Len(gt)
    /\ sc >= Len(gt) - Len(p)
    /\ sc <= (IF Len(p) > Len(gt) THEN Len(p) ELSE Len(gt))

\* C29 witness: "aba" and "bab" are two edits apart (drop the first a, add a b
\* at the end), fewer than the three substitutions position by position.
C29_Witness ==
  /\ Measured
  /\ p = <<"a", "b", "a">>
  /\ gt = <<"b", "a", "b">>
  /\ sc = 2

\* run_batch has built its summary
Summarized == b_pc = "done"

\* the detail records whose "correct" flag is true
CorrectRecords == {n \in DOMAIN details : details[n].correct}

\* C30 as claimed: after run_batch the lists preds, gts and details are equally
\* long, one entry per image in processing order, and the summary's
\* exact_matches is the number of detail records flagged correct, images
\* without a ground-truth entry and without a prediction included.
C30_ReportConsistent ==
  /\ Len(preds) = Len(gts)
  /\ Len(gts) = Len(details)
  /\ Summarized =>
       /\ Len(preds) = Len(images)
       /\ \A n \in DOMAIN details :
            /\ details[n].image_name = images[n].name
            /\ details[n].prediction = preds[n]
            /\ details[n].ground_truth = gts[n]
       /\ summary.exact_matches = Cardinality(CorrectRecords)

\* C30 witness: one image that is not in the ground truth and cannot be loaded:
\* its record says correct ("" = ""), the summary counts no exact match.
C30_Witness ==
  /\ Summarized
  /\ Len(images) = 1
  /\ images[1].name = ImgC
  /\ images[1].size = None
  /\ preds = <<<<>>>>
  /\ gts = <<<<>>>>
  /\ details[1].correct
  /\ summary.exact_matches = 0

\* what the code does: the lists agree, and exact_matches counts the records
\* flagged correct whose ground truth is not empty
C30_ExactCountsLabelled ==
  /\ Len(preds) = Len(gts)
  /\ Len(gts) = Len(details)
  /\ Summarized =>
       /\ Len(preds) = Len(images)
       /\ summary.total_samples = Len(images)
       /\ summary.exact_matches =
            Cardinality({n \in CorrectRecords : details[n].ground_truth # <<>>})

\* a batch without images does not get as far as the summary
C30_ReachedNoImages == b_pc = "raised" /\ images = <<>> /\ summary = None

====
